---- MODULE Spec2Model ----
(***************************************************************************)
(* Building-energy simulation engine and material-comparison batch driver. *)
(*                                                                         *)
(* Numbers are fixed point, because the engine computes in floating point: *)
(*   temperatures            milli-kelvin (mK), absolute                   *)
(*   heat-transfer coeffs    centi-W/m2K (cW), U_cond in milli-W/m2K       *)
(*   irradiance              W/m2                                          *)
(*   absorptance, emissivity hundredths                                    *)
(*   heat flows, loads       W                                             *)
(*   energies                kJ                                            *)
(* Every division is the floor division \div.                              *)
(***************************************************************************)
EXTENDS Integers, Sequences, FiniteSets, TLC

\* ---------------------------------------------------------------- numerics

Min(a, b) == IF a <= b THEN a ELSE b

Max(a, b) == IF a >= b THEN a ELSE b

Abs(a) == IF a < 0 THEN -a ELSE a

\* numpy.clip(x, lo, hi)
Clip(x, lo, hi) == Max(lo, Min(hi, x))

RECURSIVE RootSearch(_, _, _, _)
\* largest r in lo..hi with r^k <= n (k = 2, 3 or 4), by bisection
RootSearch(n, k, lo, hi) ==
  IF lo >= hi THEN lo
  ELSE LET mid == (lo + hi + 1) \div 2
           p == IF k = 2 THEN mid * mid
                ELSE IF k = 3 THEN mid * mid * mid
                ELSE mid * mid * mid * mid
       IN IF p <= n THEN RootSearch(n, k, mid, hi)
          ELSE RootSearch(n, k, lo, mid - 1)

\* floor(sqrt(n)), n < 2^31
ISqrt(n) == RootSearch(n, 2, 0, 46340)

\* floor(n^(1/3))
ICbrt(n) == RootSearch(n, 3, 0, 1290)

\* floor(n^(1/4))
IRoot4(n) == RootSearch(n, 4, 0, 215)

\* 100 * n^(1/4) by two square roots, n < 2^31 (the result is below 21500)
Root4x100(n) == ISqrt(ISqrt(n) * 10000)

\* Python None in an Optional[float] field or an absent dict key
NoneVal == -1

\* ---------------------------------------------------- building_model.py

\* Material(name, thickness, conductivity, density, specific_heat,
\*          solar_absorptance = 0.6, emissivity = 0.9)
\* thickness in mm, conductivity in milli-W/mK
Material(n, d, k, rho, cp) ==
  [name |-> n, thickness |-> d, conductivity |-> k, density |-> rho,
   specific_heat |-> cp, solar_absorptance |-> 60, emissivity |-> 90]

\* BuildingModel._create_constructions: layers[1] is the outermost layer
create_constructions ==
  [Wall_Standard |->
     [name |-> "Wall_Standard",
      layers |-> << Material("Brick", 100, 600, 1600, 840),
                    [Material("Insulation", 50, 40, 30, 840)
                       EXCEPT !.solar_absorptance = 50],
                    Material("Concrete", 200, 1400, 2300, 880) >>],
   Wall_HighPerformance |->
     [name |-> "Wall_HighPerformance",
      layers |-> << Material("Brick", 100, 600, 1600, 840),
                    [Material("Insulation_Premium", 100, 25, 25, 840)
                       EXCEPT !.solar_absorptance = 50],
                    Material("Concrete", 200, 1400, 2300, 880) >>],
   Roof_Standard |->
     [name |-> "Roof_Standard",
      layers |-> << [Material("Membrane", 10, 200, 1000, 1000)
                       EXCEPT !.solar_absorptance = 70],
                    [Material("Insulation", 100, 40, 30, 840)
                       EXCEPT !.solar_absorptance = 50],
                    Material("Concrete", 150, 1400, 2300, 880) >>],
   Floor_Standard |->
     [name |-> "Floor_Standard",
      layers |-> << Material("Concrete", 200, 1400, 2300, 880) >>],
   Window_Standard |->
     [name |-> "Window_Standard",
      layers |-> << Material("Glass", 6, 800, 2500, 840) >>]]

\* Surface dataclass as BuildingModel._create_surface_from_config builds it:
\* temperature 293.15 K, no radiative flux, the two overrides from the
\* configuration (a or e = NoneVal models an override that is None)
Surface(n, ori, area, cons, a, e) ==
  [name |-> n, orientation |-> ori, area |-> area, construction |-> cons,
   temperature |-> 293150, internal_radiative_flux |-> 0,
   solar_absorptance |-> a, emissivity |-> e]
\* internal_radiative_flux is in mW/m2

\* Zone dataclass as BuildingModel._create_zone_from_config builds it:
\* occupancy_density in hundredths of a person per m2, loads in W/m2
Zone(n, volume, area, occ, equip, light, surfs) ==
  [name |-> n, volume |-> volume, area |-> area, occupancy_density |-> occ,
   equipment_load |-> equip, lighting_load |-> light, surfaces |-> surfs,
   temperature |-> 293150,
   cooling_load |-> 0, heating_load |-> 0, latent_load |-> 0,
   cooling_energy |-> 0, heating_energy |-> 0,
   surface_temperatures |-> << >>]

\* ------------------------------------------------------- heat_balance.py

\* HeatBalance._calculate_u_cond: 1 / sum(thickness / conductivity), in
\* milli-W/m2K; 1000 (1.0 W/m2K) when the resistance is not positive
calculate_u_cond(construction) ==
  LET L == construction.layers
      RECURSIVE R(_)
      \* resistance of the first i layers in 1e-5 m2K/W
      R(i) == IF i = 0 THEN 0
              ELSE R(i - 1) + (L[i].thickness * 100000) \div L[i].conductivity
  IN IF R(Len(L)) <= 0 THEN 1000 ELSE 100000000 \div R(Len(L))

\* Rayleigh number / 1000 of an air layer with temperature difference dT
\* (mK): g*beta/(nu*alpha) = 1.0319e8 per kelvin
Rayleigh(dT) == (dT * 10319) \div 100

\* vertical-plate branch shared by both convection routines, in cW:
\* h = k/L * Nu, Nu = 0.68 + 0.67 Ra^(1/4) / 1.3029 below Ra = 1e9 and
\* 0.825 + 0.387 Ra^(1/6) / 1.1929 from there on
VerticalPlate(Ra_k) ==
  IF Ra_k < 1000000
  THEN (176800 + 1337 * Root4x100(Ra_k * 1000)) \div 100000
  ELSE (2145 + 124 * ICbrt(ISqrt(Ra_k * 100) * 1000)) \div 1000

\* wind_speed ** 0.6 in thousandths, wind speed in whole m/s
Pow06(w) ==
  CASE w = 0 -> 0 [] w = 1 -> 1000 [] w = 2 -> 1516 [] w = 3 -> 1933
    [] w = 4 -> 2297 [] w = 5 -> 2627 [] w = 6 -> 2930 [] w = 7 -> 3214
    [] OTHER -> 3482

\* (h_nat^3 + h_wind^3) ^ (1/3), in cW where the cubes fit 32 bits, else
\* in tenths of W/m2K
CombineConvection(h_nat, h_wind) ==
  IF h_wind <= 1000
  THEN ICbrt(h_nat * h_nat * h_nat + h_wind * h_wind * h_wind)
  ELSE 10 * ICbrt((h_nat \div 10) * (h_nat \div 10) * (h_nat \div 10)
                  + (h_wind \div 10) * (h_wind \div 10) * (h_wind \div 10))

\* HeatBalance._calculate_exterior_convection_coefficient, in cW: natural
\* convection at a fixed 5 K difference, wind term c * v^0.6 with c = 3.0
\* for the roof, 2.0 for the floor and 3.94 for walls
calculate_exterior_convection_coefficient(wind_speed, orientation) ==
  Clip(CombineConvection(
         Clip(VerticalPlate(Rayleigh(5000)), 50, 800),
         Clip(((IF orientation = "Roof" THEN 300
                ELSE IF orientation = "Floor" THEN 200 ELSE 394)
               * Pow06(Max(wind_speed, 0))) \div 1000, 0, 5000)),
       200, 5000)

\* horizontal-plate branches: Nu = c1 Ra^(1/4) below Ra = 1e9, c2 Ra^(1/3)
\* from there on, with (0.54, 0.15) for the roof and halved for the floor
HorizontalPlate(Ra_k, half) ==
  IF Ra_k < 1000000
  THEN ((1404 \div half) * Root4x100(Ra_k * 1000)) \div 100000
  ELSE ((840 \div half) * ICbrt(Ra_k * 100)) \div 1000

\* HeatBalance._calculate_interior_convection_coefficient, in cW; dT in mK
\* or NoneVal
calculate_interior_convection_coefficient(orientation, dT) ==
  IF dT = NoneVal
  THEN IF orientation = "Roof" THEN 400
       ELSE IF orientation = "Floor" THEN 200 ELSE 300
  ELSE Clip(IF orientation = "Roof"
              THEN HorizontalPlate(Rayleigh(Max(100, Abs(dT))), 1)
            ELSE IF orientation = "Floor"
              THEN HorizontalPlate(Rayleigh(Max(100, Abs(dT))), 2)
            ELSE VerticalPlate(Rayleigh(Max(100, Abs(dT)))),
            100, 1000)

\* HeatBalance.sky_temp_weights (defaults), in tenths; the weather records of
\* this model carry no infrared, dew-point or sky-cover field, so only the
\* Brutsaert (clear-sky emissivity 0.72) and Swinbank candidates exist
sky_temp_weights == [brutsaert |-> 3, swinbank |-> 5]

\* heat_balance.py:131-140, mK: the Brutsaert candidate without dew point
\* and sky cover, 0.72 ** 0.25 * TaK = 0.921 TaK
BrutsaertCandidate(TaK) == (TaK * 921) \div 1000

\* heat_balance.py:143-150, mK: the Swinbank candidate without sky cover,
\* (5.31e-8 TaK^6 / sigma) ** 0.25 = 0.984 * TaK ** 1.5 (TaK in K)
SwinbankCandidate(TaK) ==
  (((TaK \div 1000) * ISqrt(TaK * 1000)) \div 1000) * 984

\* heat_balance.py:155-166, mK: the weighted mean of the two candidates
WeightedSky(TaK) ==
  (sky_temp_weights.brutsaert * BrutsaertCandidate(TaK)
   + sky_temp_weights.swinbank * SwinbankCandidate(TaK))
    \div (sky_temp_weights.brutsaert + sky_temp_weights.swinbank)

\* HeatBalance._effective_sky_temperature, mK
effective_sky_temperature(weather, T_outK) ==
  LET TaK == Clip(T_outK, 200000, 330000)
  IN Clip(WeightedSky(TaK), TaK - 40000, TaK - 2000)

\* HeatBalance._radiative_environment_temperature, mK.  F_sky is 1 for the
\* roof, 1/2 for walls, 0 for the floor; for walls the fourth root of the
\* mean of two fourth powers is m + 3 d^2 / 2m - 25 q^2 / 8m with m the
\* mean, d the half difference and q = d^2 / m
radiative_environment_temperature(orientation, T_skyK, T_outK) ==
  LET T_ground == Clip(T_outK, 200000, 330000)
      m == (T_skyK + T_ground) \div 2
      d == (T_ground - T_skyK) \div 2
      q == (d * d) \div m
      T_env == IF orientation = "Roof" THEN T_skyK
               ELSE IF orientation = "Floor" THEN T_ground
               ELSE m + (3 * q) \div 2 - (25 * q * q) \div (8 * m)
  IN Clip(T_env, 150000, 340000)

\* cos(az - az_surf) in thousandths, from HeatBalance._surface_tilt_azimuth
\* (North 0, East 90, South 180, West 270 degrees; anything else south)
CosRelAzimuth(orientation, sun) ==
  IF orientation = "North" THEN sun.cos_az
  ELSE IF orientation = "East" THEN sun.sin_az
  ELSE IF orientation = "West" THEN -sun.sin_az
  ELSE -sun.cos_az

\* HeatBalance._calculate_surface_solar_radiation, W/m2.  weather.sun is
\* what _solar_alt_az returns for the record's datetime and site, as sines
\* and cosines in thousandths; weather.has_geo tells whether the record has
\* the datetime/latitude/longitude/timezone keys
calculate_surface_solar_radiation(surface, weather) ==
  IF surface.orientation = "Floor" THEN 0
  ELSE
    LET GHI == Max(0, weather.solar_radiation)
        DNI0 == Max(0, weather.direct_normal_radiation)
        DHI == Max(0, weather.diffuse_horizontal_radiation)
        albedo == 20
        o == surface.orientation
    IN IF ~weather.has_geo
       THEN LET mo == weather.month
                factor ==
                  IF mo \in {12, 1, 2}
                  THEN CASE o = "South" -> 15 [] o = "North" -> 1
                         [] o \in {"East", "West"} -> 7 [] o = "Roof" -> 6
                         [] OTHER -> 5
                  ELSE IF mo \in {3, 4, 5}
                  THEN CASE o = "South" -> 12 [] o = "North" -> 3
                         [] o \in {"East", "West"} -> 9 [] o = "Roof" -> 9
                         [] OTHER -> 5
                  ELSE IF mo \in {6, 7, 8}
                  THEN CASE o = "South" -> 7 [] o = "North" -> 5
                         [] o \in {"East", "West"} -> 6 [] o = "Roof" -> 13
                         [] OTHER -> 5
                  ELSE CASE o = "South" -> 12 [] o = "North" -> 2
                         [] o \in {"East", "West"} -> 8 [] o = "Roof" -> 10
                         [] OTHER -> 5
            IN (GHI * factor) \div 10
       ELSE IF weather.sun.sin_alt <= 0 THEN 0
       ELSE
         LET sun == weather.sun
             \* cos(beta): roof 1, walls 0
             cos_beta == IF o = "Roof" THEN 1000 ELSE 0
             sin_beta == IF o = "Roof" THEN 0 ELSE 1000
             cos_theta_i ==
               Max(0, (sun.sin_alt * cos_beta) \div 1000
                      + (((sun.cos_alt * sin_beta) \div 1000)
                         * CosRelAzimuth(o, sun)) \div 1000)
             csz == Max(1, sun.sin_alt)
             DNI == IF DNI0 <= 0 THEN Max(0, ((GHI - DHI) * 1000) \div csz)
                    ELSE DNI0
             I_beam == (DNI * cos_theta_i) \div 1000
             I_diff == (DHI * (1000 + cos_beta)) \div 2000
             I_refl == (GHI * albedo * (1000 - cos_beta)) \div 200000
         IN Max(0, I_beam) + Max(0, I_diff) + Max(0, I_refl)

\* 4 * eps * sigma * T^3 in cW; eps in hundredths, T in mK
LinearRadiation(eps, T) ==
  LET T_dK == T \div 100
      cube10 == ((T_dK * T_dK) \div 100) * T_dK
  IN (eps * (((cube10 \div 1000) * 2268) \div 10000)) \div 10000

\* T + (T_env^4 - T^4) / (4 T^3), written as T + (T_env - T) * R with
\* R = (1 + a)(1 + a^2) / 4 and a = T_env / T in ten-thousandths
LinearEnvironment(T_env, Tm) ==
  LET a == ((T_env \div 10) * 10000) \div (Tm \div 10)
      R == ((10000 + a) * (10000 + (a * a) \div 10000)) \div 40000
  IN Tm + (((T_env - Tm) \div 10) * R) \div 1000

\* heat_balance.py:279-285: the exterior balance solved for T_ext, relaxed
\* by 0.3 and clipped.  rhs is taken relative to T_out, in 1e-5 W/m2
Relax(c, T_ext, h_rad_ext, T_env_lin, U_eq, q_eq) ==
  LET denom == c.h_ext + h_rad_ext + U_eq
      rhs == h_rad_ext * (T_env_lin - c.T_out) + c.alpha * c.I_solar * 1000
             + U_eq * (c.T_zone - c.T_out) - q_eq * 100
  IN Clip((7 * T_ext + 3 * (c.T_out + rhs \div Max(denom, 1))) \div 10,
          230000, 340000)

\* heat_balance.py:258-278: the linearised coefficients of one pass, from
\* the representative temperature Tm and the interior film h_in_tot
ExteriorBalance(c, T_ext, Tm, h_in_tot) ==
  Relax(c, T_ext,
        Clip(LinearRadiation(c.emiss, Tm), 10, 2000),
        Clip(LinearEnvironment(c.T_env_rad, Tm), 150000, 330000),
        (c.U_cond * h_in_tot) \div (10 * h_in_tot + c.U_cond),
        (c.U_cond * c.q_int) \div Max(10 * h_in_tot + c.U_cond, 1))

\* one pass of the loop "for _ in range(30)" of calculate_surface_temperature
\* (heat_balance.py:248-290); c holds what the loop does not change
SurfaceIteration(c, T_ext) ==
  ExteriorBalance(c, T_ext, Clip(T_ext, 200000, 330000),
    Max(10, calculate_interior_convection_coefficient(
              c.orientation, Abs(c.T_zone - T_ext)) + c.h_rad_in))

RECURSIVE SurfaceLoop(_, _, _)
\* heat_balance.py:287-290: stop once a pass moves T_ext by less than
\* convergence_tolerance = 0.005 K
LoopStep(c, T_ext, T_new, n) ==
  IF Abs(T_new - T_ext) < 5 THEN T_new ELSE SurfaceLoop(c, T_new, n - 1)

\* the loop with n passes left
SurfaceLoop(c, T_ext, n) ==
  IF n = 0 THEN T_ext ELSE LoopStep(c, T_ext, SurfaceIteration(c, T_ext), n)

\* heat_balance.py:294-306: the interior surface temperature from T_ext,
\* (h_in_tot T_zone + U_cond T_ext - q_int) / (h_in_tot + U_cond)
InteriorTemperature(c, T_ext) ==
  Clip(c.T_zone
       + (c.U_cond * (T_ext - c.T_zone) - c.q_int * 1000)
         \div Max(10 * Max(10, calculate_interior_convection_coefficient(
                                 c.orientation, Abs(c.T_zone - T_ext))
                               + c.h_rad_in)
                  + c.U_cond, 1),
       230000, 340000)

\* heat_balance.py:203-252: what the loop of calculate_surface_temperature
\* starts from, T_out and T_zone already clipped
SurfaceContext(construction, surface, weather, T_out, T_zone) ==
  [orientation |-> surface.orientation, T_out |-> T_out, T_zone |-> T_zone,
   U_cond |-> Max(50, Min(calculate_u_cond(construction), 10000)),
   h_ext |-> IF surface.orientation = "Floor" THEN 50
             ELSE Max(200, Min(calculate_exterior_convection_coefficient(
                        weather.wind_speed, surface.orientation), 5000)),
   I_solar |-> IF surface.orientation = "Floor" THEN 0
               ELSE Max(0, calculate_surface_solar_radiation(surface, weather)),
   T_env_rad |->
     IF surface.orientation = "Floor"
     THEN IF weather.annual_mean_temperature # NoneVal
          THEN weather.annual_mean_temperature + 273150 ELSE T_out
     ELSE radiative_environment_temperature(
            surface.orientation,
            Clip(effective_sky_temperature(weather, T_out), 150000, 330000),
            T_out),
   emiss |-> IF surface.emissivity # NoneVal THEN surface.emissivity
             ELSE construction.layers[1].emissivity,
   alpha |-> IF surface.solar_absorptance # NoneVal
             THEN surface.solar_absorptance
             ELSE construction.layers[1].solar_absorptance,
   h_rad_in |->
     Clip(LinearRadiation(
            construction.layers[Len(construction.layers)].emissivity, T_zone),
          10, 1000),
   q_int |-> surface.internal_radiative_flux]

\* the loop from T_ext = T_out, then the interior temperature
SolveSurface(c) == InteriorTemperature(c, SurfaceLoop(c, c.T_out, 30))

\* HeatBalance.calculate_surface_temperature; cons is the building model's
\* construction table.  The value is T_int, which the code also stores in
\* surface.temperature
calculate_surface_temperature(cons, surface, weather, T_zoneK) ==
  SolveSurface(SurfaceContext(cons[surface.construction], surface, weather,
                              Clip(weather.temperature + 273150, 200000, 330000),
                              Clip(T_zoneK, 250000, 330000)))

\* sum of f[i] over i in 1..n
RECURSIVE SumTo(_, _)
SumTo(f, n) == IF n = 0 THEN 0 ELSE SumTo(f, n - 1) + f[n]

\* 'window' in construction.name.lower(), over the names of this model
IsWindow(cons_name) == cons_name = "Window_Standard"

\* HeatBalance._calculate_solar_gain: transmitted through windows, tau 0.6
calculate_solar_gain(zone, weather) ==
  SumTo([i \in 1..Len(zone.surfaces) |->
           IF IsWindow(zone.surfaces[i].construction)
           THEN (zone.surfaces[i].area * 6
                 * Max(0, calculate_surface_solar_radiation(zone.surfaces[i],
                                                            weather))) \div 10
           ELSE 0],
        Len(zone.surfaces))

\* HeatBalance._calculate_convection_heat: sum of h_i A_i (T_surf_i - T_zone)
calculate_convection_heat(zone) ==
  SumTo([i \in 1..Len(zone.surfaces) |->
           LET s == zone.surfaces[i]
               h_int == calculate_interior_convection_coefficient(
                          s.orientation, Abs(s.temperature - zone.temperature))
           IN (((h_int * (s.temperature - zone.temperature)) \div 100)
               * s.area) \div 1000],
        Len(zone.surfaces))

\* HeatBalance._calculate_internal_heat: people 75 W each, 90 % of the
\* equipment load, all of the lighting load
calculate_internal_heat(zone) ==
  (zone.occupancy_density * zone.area * 75) \div 100
  + (zone.area * zone.equipment_load * 9) \div 10
  + zone.area * zone.lighting_load

\* SimulationEngine.__init__ default of hvac.ventilation_ach, hundredths 1/h
ventilation_ach == 20

\* HeatBalance._calculate_ventilation_heat: rho Vdot cp (T_out - T_zone)
\* with rho = p / (R T) clipped to [0.6, 1.6]
calculate_ventilation_heat(zone, weather) ==
  LET T_out == weather.temperature + 273150
      p_out == weather.atmospheric_pressure
      rho_out == Clip((p_out * 1000)
                      \div Max((28706 * (T_out \div 100)) \div 1000, 1),
                      600, 1600)
      \* mass_flow * air_cp in cW/K
      mcp == ((((rho_out * zone.volume * ventilation_ach) \div 1000)) * 1005)
             \div 3600
  IN (mcp * (T_out - zone.temperature)) \div 100000

\* heat_balance.py:329-342: the air node moved by Q_total over dt = 3600 s
\* against C_air + C_building = (1.2 * 1005 + 50 * 880) * volume (kJ/K
\* here), by at most 5 K, kept within [250, 330] K
AirNodeUpdate(zone, Q_total) ==
  Clip(zone.temperature
       + Clip((Q_total * 3600) \div Max(1, (45206 * zone.volume) \div 1000),
              -5000, 5000),
       250000, 330000)

\* HeatBalance.calculate_zone_temperature: free-float update of the air
\* node from a fifth of the window gain, convection, internal heat and
\* ventilation
calculate_zone_temperature(zone, weather) ==
  AirNodeUpdate(zone,
                calculate_solar_gain(zone, weather) \div 5
                + calculate_convection_heat(zone)
                + calculate_internal_heat(zone)
                + calculate_ventilation_heat(zone, weather))

\* HeatBalance._split_internal_loads: (convective, radiative) parts
split_internal_loads(zone) ==
  LET Q_occ_sens == (zone.occupancy_density * zone.area * 75) \div 100
      Q_equip == zone.area * zone.equipment_load
      Q_light == zone.area * zone.lighting_load
  IN [conv |-> Q_occ_sens \div 2 + Q_equip \div 2 + (38 * Q_light) \div 100,
      rad |-> Q_occ_sens - Q_occ_sens \div 2 + Q_equip - Q_equip \div 2
              + (62 * Q_light) \div 100]

\* HeatBalance._distribute_internal_radiation: the flux (mW/m2) every
\* surface of the zone receives
distribute_internal_radiation(zone, Q_internal_rad, Q_solar_rad) ==
  LET total_rad == Max(0, Q_internal_rad + Q_solar_rad)
      A == SumTo([i \in 1..Len(zone.surfaces) |->
                    Max(0, zone.surfaces[i].area)], Len(zone.surfaces))
  IN IF total_rad > 0 THEN (total_rad * 1000) \div Max(A, 1) ELSE 0

\* a probe that forgets to put the air temperature back
KeepProbeTemperature(zone, T_prev) == zone

\* heat_balance.py:399, "zone.temperature = T_prev": the probe puts the air
\* temperature it found back
RestoreTemperature(zone, T_prev) == [zone EXCEPT !.temperature = T_prev]

\* a probe whose convection and ventilation are taken at the air temperature
\* the zone had before the probe, not at the probe temperature
ProbeAtFreeFloat(held, weather, T_prev, Q_gain) ==
  [Q |-> calculate_convection_heat([held EXCEPT !.temperature = T_prev])
         + calculate_ventilation_heat([held EXCEPT !.temperature = T_prev],
                                      weather) + Q_gain,
   zone |-> [held EXCEPT !.temperature = T_prev]]

\* heat_balance.py:395-402: convection and ventilation of the zone held at
\* the probe temperature, plus the convective gains; then the restore
ProbeResult(held, weather, T_prev, Q_gain) ==
  [Q |-> calculate_convection_heat(held)
         + calculate_ventilation_heat(held, weather) + Q_gain,
   zone |-> RestoreTemperature(held, T_prev)]

\* heat_balance.py:386-392: flux reset and redistributed, then the surface
\* solved at T_zoneK
SolveAt(cons, surface, weather, T_zoneK, flux) ==
  [surface EXCEPT
     !.internal_radiative_flux = flux,
     !.temperature =
        calculate_surface_temperature(
          cons, [surface EXCEPT !.internal_radiative_flux = flux], weather,
          T_zoneK)]

\* compute_sensible_balance once the window gain and the split of the
\* internal loads are known; 20 % of the window gain is convective
BalanceAt(cons, zone, weather, T_zoneK, Q_solar_total, split) ==
  ProbeResult(
    [zone EXCEPT
       !.temperature = T_zoneK,
       !.surfaces =
          [i \in 1..Len(zone.surfaces) |->
             SolveAt(cons, zone.surfaces[i], weather, T_zoneK,
                     distribute_internal_radiation(
                       zone, split.rad,
                       Q_solar_total - Q_solar_total \div 5))]],
    weather, zone.temperature, split.conv + Q_solar_total \div 5)

\* HeatBalance.compute_sensible_balance: the sensible balance Q (W) of the
\* zone held at T_zoneK, and the zone as the call leaves it (surfaces
\* re-solved at T_zoneK)
compute_sensible_balance(cons, zone, weather, T_zoneK) ==
  BalanceAt(cons, zone, weather, T_zoneK, calculate_solar_gain(zone, weather),
            split_internal_loads(zone))

\* --------------------------------------------------------- hvac_system.py

\* HVACSystem.__init__ with the configuration of create_config_with_material:
\* setpoints in mK, humidity in hundredths, COPs in thousandths, capacities W
hvac_system ==
  [cooling_setpoint |-> 26000 + 273150, heating_setpoint |-> 20000 + 273150,
   humidity_setpoint |-> 50, cop_cooling_ref |-> 3500,
   cop_heating_ref |-> 3000, cop_ref_temp |-> 35000 + 273150,
   plr_coeff_a |-> 125, plr_coeff_b |-> 875,
   max_cooling_capacity |-> 50000, max_heating_capacity |-> 40000]

\* HVACSystem.calculate_latent_load: air_mass_flow * latent_heat * 0.01 =
\* 50000 W per unit of relative humidity above the setpoint
calculate_latent_load(humidity, humidity_setpoint) ==
  IF humidity > humidity_setpoint
  THEN 500 * (humidity - humidity_setpoint) ELSE 0

\* HVACSystem.get_cop_cooling, thousandths
get_cop_cooling(T_outdoor) ==
  LET dT == Clip(T_outdoor, 250000, 330000) - hvac_system.cop_ref_temp
      dT_c == dT \div 10
      f == 1000 - dT \div 50 - (dT_c * dT_c) \div 20000
  IN Clip((hvac_system.cop_cooling_ref * f) \div 1000, 1000, 6000)

\* HVACSystem.get_cop_heating, thousandths; reference 7 C
get_cop_heating(T_outdoor) ==
  LET dT == Clip(T_outdoor, 250000, 330000) - (273150 + 7000)
      dT_c == dT \div 10
      f == IF dT < -10000
             THEN 1000 + dT \div 25 - (dT_c * dT_c) \div 10000
           ELSE IF dT < 0
             THEN 1000 + (3 * dT) \div 100 - (6 * dT_c * dT_c) \div 100000
           ELSE 1000 + (15 * dT) \div 1000 - (3 * dT_c * dT_c) \div 100000
  IN Clip((hvac_system.cop_heating_ref * f) \div 1000, 1000, 5000)

\* HVACSystem._get_part_load_factor of plr = min(load / capacity, 1),
\* thousandths
get_part_load_factor(load, capacity) ==
  IF load <= 0 THEN 0
  ELSE Clip(hvac_system.plr_coeff_a
            + (hvac_system.plr_coeff_b * Min(load, capacity)) \div capacity,
            100, 1000)

\* HVACSystem.calculate_energy over dt = 3600 s, in kJ
calculate_energy(load, mode, T_outdoor) ==
  IF load <= 0 THEN 0
  ELSE LET cop == IF mode = "cooling" THEN get_cop_cooling(T_outdoor)
                  ELSE get_cop_heating(T_outdoor)
           capacity == IF mode = "cooling"
                       THEN hvac_system.max_cooling_capacity
                       ELSE hvac_system.max_heating_capacity
           cop_part == Max((cop * get_part_load_factor(load, capacity))
                           \div 1000, 100)
       IN (load * 3600) \div cop_part

\* the four HVAC classes of hvac_system.py
Classes ==
  {"HVACSystem", "SimpleHVACSystem", "VariableRefrigerantFlowSystem",
   "HeatPumpSystem"}

\* class(config): HVACSystem.__init__ followed by the subclass's own
\* __init__.  config holds 'cop_cooling' and 'cop_heating' in thousandths,
\* NoneVal for a key that is absent; the temperature coefficients are in
\* units of 1e-4, the part-load coefficients in thousandths
NewHVACSystem(class, config) ==
  [class |-> class,
   cop_cooling_ref |->
     IF config.cop_cooling # NoneVal THEN config.cop_cooling ELSE 3500,
   cop_heating_ref |->
     IF config.cop_heating # NoneVal THEN config.cop_heating
     ELSE IF class = "HeatPumpSystem" THEN 4000 ELSE 3000,
   cop_ref_temp |-> 35000 + 273150,
   cop_temp_coeff_a |-> -100, cop_temp_coeff_b |-> 1,
   plr_coeff_a |->
     IF class = "VariableRefrigerantFlowSystem" THEN 50 ELSE 125,
   plr_coeff_b |->
     IF class = "VariableRefrigerantFlowSystem" THEN 950 ELSE 875,
   max_cooling_capacity |-> 50000, max_heating_capacity |-> 40000]

\* "if T_outdoor is None: T_outdoor = self.cop_ref_temp"
OrReference(self, T_outdoor) ==
  IF T_outdoor = NoneVal THEN self.cop_ref_temp ELSE T_outdoor

\* HVACSystem.get_cop_cooling of any instance, thousandths
HVACSystem_get_cop_cooling(self, T_outdoor) ==
  LET dT == Clip(OrReference(self, T_outdoor), 250000, 330000)
            - self.cop_ref_temp
      dT_c == dT \div 10
      f == 1000 - dT \div 50 - (dT_c * dT_c) \div 20000
  IN Clip((self.cop_cooling_ref * f) \div 1000, 1000, 6000)

\* HVACSystem.get_cop_heating of any instance, thousandths
HVACSystem_get_cop_heating(self, T_outdoor) ==
  LET dT == Clip(OrReference(self, T_outdoor), 250000, 330000)
            - (273150 + 7000)
      dT_c == dT \div 10
      f == IF dT < -10000
             THEN 1000 + dT \div 25 - (dT_c * dT_c) \div 10000
           ELSE IF dT < 0
             THEN 1000 + (3 * dT) \div 100 - (6 * dT_c * dT_c) \div 100000
           ELSE 1000 + (15 * dT) \div 1000 - (3 * dT_c * dT_c) \div 100000
  IN Clip((self.cop_heating_ref * f) \div 1000, 1000, 5000)

\* HeatPumpSystem.get_cop_heating: the temperature is not clipped, the
\* coefficients are cop_temp_coeff_a and _b times 1.5, the floor is 0.5
HeatPumpSystem_get_cop_heating(self, T_outdoor) ==
  LET dT == OrReference(self, T_outdoor) - self.cop_ref_temp
      dT_c == dT \div 10
      f == 1000 + (15 * self.cop_temp_coeff_a * dT) \div 100000
           + (15 * self.cop_temp_coeff_b * dT_c * dT_c) \div 1000000
  IN Max(500, (self.cop_heating_ref * f) \div 1000)

\* self.get_cop_cooling(T_outdoor) as the instance's class resolves it
CopCooling(self, T_outdoor) ==
  IF self.class = "SimpleHVACSystem" THEN self.cop_cooling_ref
  ELSE HVACSystem_get_cop_cooling(self, T_outdoor)

\* self.get_cop_heating(T_outdoor) as the instance's class resolves it
CopHeating(self, T_outdoor) ==
  IF self.class = "SimpleHVACSystem" THEN self.cop_heating_ref
  ELSE IF self.class = "HeatPumpSystem"
    THEN HeatPumpSystem_get_cop_heating(self, T_outdoor)
  ELSE HVACSystem_get_cop_heating(self, T_outdoor)

\* self._get_part_load_factor(min(load / capacity, 1.0)) as the instance's
\* class resolves it, thousandths: 1.0 for the simple system, a floor of
\* 0.05 for the VRF system and of 0.1 for the others
PartLoadFactor(self, load, capacity) ==
  IF self.class = "SimpleHVACSystem" THEN 1000
  ELSE IF load <= 0 THEN 0
  ELSE Clip(self.plr_coeff_a
            + (self.plr_coeff_b * Min(load, capacity)) \div capacity,
            IF self.class = "VariableRefrigerantFlowSystem" THEN 50 ELSE 100,
            1000)

\* hvac_system.py:129-141: cop_part = max(cop * factor, 0.1), thousandths
CopPart(self, load, mode, T_outdoor) ==
  LET cop == IF mode = "cooling" THEN CopCooling(self, T_outdoor)
             ELSE CopHeating(self, T_outdoor)
      capacity == IF mode = "cooling" THEN self.max_cooling_capacity
                  ELSE self.max_heating_capacity
  IN Max((cop * PartLoadFactor(self, load, capacity)) \div 1000, 100)

\* (load / cop_part) * dt for dt = 3600 s, in J: the quotient
\* load * 3600000 / cop_part, multiplied out in two parts
EnergyOver(load, cop_part) ==
  load * (3600000 \div cop_part)
  + (load * (3600000 % cop_part)) \div cop_part

\* calculate_energy with the test of line 126 left out
EnergyWithoutGuard(self, load, mode, T_outdoor) ==
  EnergyOver(load, CopPart(self, load, mode, T_outdoor))

\* HVACSystem.calculate_energy of any instance over dt = 3600 s, in J;
\* calculate_energy above is its value in kJ for the engine's system
HVACSystem_calculate_energy(self, load, mode, T_outdoor) ==
  IF load <= 0 THEN 0
  ELSE EnergyOver(load, CopPart(self, load, mode, T_outdoor))

\* --------------------------------------------------- simulation_engine.py

\* SimulationEngine.max_iterations
max_iterations == 10

\* every surface of the zone solved against the zone's air temperature
SolveSurfaces(cons, zone, weather) ==
  [zone EXCEPT !.surfaces =
     [i \in 1..Len(zone.surfaces) |->
        [zone.surfaces[i] EXCEPT !.temperature =
           calculate_surface_temperature(cons, zone.surfaces[i], weather,
                                         zone.temperature)]]]

RECURSIVE ZoneIterate(_, _, _, _)
\* simulation_engine.py:172-175: converged when the air node moved less than
\* convergence_tolerance = 0.01 K
ZoneCheck(cons, next, weather, old_temperature, n) ==
  IF Abs(next.temperature - old_temperature) < 10
  THEN [zone |-> next, iterations |-> n + 1]
  ELSE ZoneIterate(cons, next, weather, n + 1)

\* simulation_engine.py:168-169: the air node after the surfaces
ZoneStep(cons, solved, weather, old_temperature, n) ==
  ZoneCheck(cons,
            [solved EXCEPT
               !.temperature = calculate_zone_temperature(solved, weather)],
            weather, old_temperature, n)

\* the loop "for iteration in range(self.max_iterations)" with n passes
\* done.  Yields the zone and the passes made
ZoneIterate(cons, zone, weather, n) ==
  IF n >= max_iterations THEN [zone |-> zone, iterations |-> n]
  ELSE ZoneStep(cons, SolveSurfaces(cons, zone, weather), weather,
                zone.temperature, n)

\* simulation_engine.py:178-180: the surface temperatures are snapshot
SnapshotSurfaces(r) ==
  [zone |-> [r.zone EXCEPT !.surface_temperatures =
               [i \in 1..Len(r.zone.surfaces) |->
                  r.zone.surfaces[i].temperature]],
   iterations |-> r.iterations]

\* SimulationEngine._calculate_zone_heat_balance
calculate_zone_heat_balance(cons, zone, weather) ==
  SnapshotSurfaces(ZoneIterate(cons, zone, weather, 0))

\* the two balances taken as loads without the clamp at zero
LoadsUnclamped(Q_cool, Q_heat) ==
  [cooling_load |-> Q_cool, heating_load |-> -Q_heat]

\* simulation_engine.py:200-201: the two loads from the two balances
LoadsOf(Q_cool, Q_heat) ==
  [cooling_load |-> IF Q_cool > 0 THEN Q_cool ELSE 0,
   heating_load |-> Max(0, -Q_heat)]

\* simulation_engine.py:204-217: loads, latent load and the hour's energies
\* are stored in the zone
StoreLoads(zone, loads, weather, Q_cool, Q_heat) ==
  [zone |-> [zone EXCEPT
               !.cooling_load = loads.cooling_load,
               !.heating_load = loads.heating_load,
               !.latent_load =
                  Max(0, calculate_latent_load(weather.humidity,
                                               hvac_system.humidity_setpoint)),
               !.cooling_energy =
                  calculate_energy(loads.cooling_load, "cooling",
                                   weather.temperature + 273150),
               !.heating_energy =
                  calculate_energy(loads.heating_load, "heating",
                                   weather.temperature + 273150)],
   Q_cool |-> Q_cool, Q_heat |-> Q_heat]

\* simulation_engine.py:196: the balance at the heating setpoint
HeatingProbe(weather, Q_cool, heat) ==
  StoreLoads(heat.zone, LoadsOf(Q_cool, heat.Q), weather, Q_cool, heat.Q)

\* simulation_engine.py:195: the balance at the cooling setpoint
CoolingProbe(cons, weather, cool) ==
  HeatingProbe(weather, cool.Q,
               compute_sensible_balance(cons, cool.zone, weather,
                                        hvac_system.heating_setpoint))

\* SimulationEngine._calculate_hvac_load: the zone after the call, with the
\* two balances kept for inspection
calculate_hvac_load(cons, zone, weather) ==
  CoolingProbe(cons, weather,
               compute_sensible_balance(cons, zone, weather,
                                        hvac_system.cooling_setpoint))

\* ------------------------------------------------------ compare_materials.py

\* a material-scenario entry {'alpha', 'emissivity', 'conductivity'}
Params(a, e, k) == [alpha |-> a, emissivity |-> e, conductivity |-> k]

\* _build_scenarios: the three declared scenarios, in order
build_scenarios ==
  << [name |-> "baseline", wall |-> Params(NoneVal, NoneVal, NoneVal),
      roof |-> Params(NoneVal, NoneVal, NoneVal)],
     [name |-> "cool", wall |-> Params(10, 95, NoneVal),
      roof |-> Params(10, 95, NoneVal)],
     [name |-> "hot", wall |-> Params(90, 95, NoneVal),
      roof |-> Params(90, 95, NoneVal)] >>

\* the scenarios a run can be given: the declared ones, then two that a
\* caller passes to set the absorptance alone (0.7 and 0.5)
Scenarios ==
  build_scenarios \o
  << [name |-> "alpha70", wall |-> Params(70, NoneVal, NoneVal),
      roof |-> Params(70, NoneVal, NoneVal)],
     [name |-> "alpha50", wall |-> Params(50, NoneVal, NoneVal),
      roof |-> Params(50, NoneVal, NoneVal)] >>

\* the outer layer m with every value of the scenario, None included
OverwriteAll(m, ps) ==
  [m EXCEPT !.solar_absorptance = ps.alpha, !.emissivity = ps.emissivity,
            !.conductivity = ps.conductivity]

\* the outer layer m with the scenario's values that are not None
ApplyParams(m, ps) ==
  [m EXCEPT
     !.solar_absorptance = IF ps.alpha # NoneVal THEN ps.alpha ELSE @,
     !.emissivity = IF ps.emissivity # NoneVal THEN ps.emissivity ELSE @,
     !.conductivity = IF ps.conductivity # NoneVal THEN ps.conductivity ELSE @]

\* _apply_material_scenario: outer layers of Wall_Standard and Roof_Standard,
\* then the overrides of every wall and roof surface
apply_material_scenario(bm, wall, roof) ==
  [constructions |->
     [bm.constructions EXCEPT
        !.Wall_Standard.layers[1] = ApplyParams(@, wall),
        !.Roof_Standard.layers[1] = ApplyParams(@, roof)],
   zones |->
     [z \in 1..Len(bm.zones) |->
        [bm.zones[z] EXCEPT !.surfaces =
           [i \in 1..Len(bm.zones[z].surfaces) |->
              LET sf == bm.zones[z].surfaces[i]
                  ps == IF sf.orientation \in {"South", "North", "East", "West"}
                        THEN wall
                        ELSE IF sf.orientation = "Roof" THEN roof
                        ELSE Params(NoneVal, NoneVal, NoneVal)
              IN [sf EXCEPT
                    !.solar_absorptance =
                       IF ps.alpha # NoneVal THEN ps.alpha ELSE @,
                    !.emissivity =
                       IF ps.emissivity # NoneVal THEN ps.emissivity ELSE @]]]]]

\* BuildingModel(config['building']) for the building configurations of this
\* model: "wall" is one zone behind a single south wall of 0.2 m concrete,
\* "envelope" one zone of create_config_with_material reduced to a south
\* wall, the roof and the floor.  _create_surface_from_config fills both
\* overrides with 0.6 and 0.9 when the configuration names none
BuildingModel(building) ==
  [constructions |-> create_constructions,
   zones |->
     IF building = "wall"
     THEN << Zone("Zone1", 500, 100, 5, 10, 5,
               << Surface("ExtWall_South", "South", 100, "Floor_Standard",
                          60, 90) >>) >>
     ELSE << Zone("Zone1", 500, 100, 5, 10, 5,
               << Surface("ExtWall_South", "South", 100, "Wall_Standard",
                          60, 90),
                  Surface("Roof", "Roof", 150, "Roof_Standard", 60, 90),
                  Surface("Floor", "Floor", 150, "Floor_Standard",
                          60, 90) >>) >>]

\* ----------------------------------------------------------- weather_data.py

\* the record of a weather file at hour stamp t (hours since the midnight
\* before its first record).  "summer" is 30 C with the sun 30 degrees up
\* in the south at every hour, "winter" is -5 C and dark at every hour,
\* "mixed" is 5 C and dark before noon and the summer record after it
RecordAt(kind, t) ==
  LET sunny == kind = "summer" \/ (kind = "mixed" /\ t % 24 >= 12)
      cold == IF kind = "winter" THEN -5000 ELSE 5000
      mean == IF kind = "summer" THEN 30000
              ELSE IF kind = "winter" THEN -5000 ELSE 17500
  IN [temperature |-> IF sunny THEN 30000 ELSE cold,
      humidity |-> IF sunny THEN 60 ELSE 40,
      solar_radiation |-> IF sunny THEN 400 ELSE 0,
      direct_normal_radiation |-> IF sunny THEN 300 ELSE 0,
      diffuse_horizontal_radiation |-> IF sunny THEN 100 ELSE 0,
      wind_speed |-> IF sunny THEN 0 ELSE 3,
      atmospheric_pressure |-> 101325,
      month |-> IF sunny THEN 7 ELSE 1,
      has_geo |-> TRUE,
      sun |-> IF sunny
              THEN [sin_alt |-> 500, cos_alt |-> 866, cos_az |-> -1000,
                    sin_az |-> 0]
              ELSE [sin_alt |-> -500, cos_alt |-> 866, cos_az |-> 1000,
                    sin_az |-> 0],
      annual_mean_temperature |-> mean]

\* WeatherData.get_hourly_data: the record nearest in time; a file holds
\* one record for every hour from its first stamp to its last
get_hourly_data(file, t) == RecordAt(file.kind, Clip(t, file.first, file.last))

\* ------------------------------------------------- SimulationEngine, state

VARIABLES
  cfg,           \* what the run was configured with; never changes
  engine,        \* engine[r]: building model, result tables, hour_counter
  current_date,  \* run_simulation's current_date, as an hour stamp
  hour,          \* the inner loop's hour
  weather,       \* the record of the timestep being worked on
  pc,            \* position in run_simulation
  handled,       \* the current_time of every timestep begun, in order
  probe,         \* probe[r][z]: balances and passes of the last timestep
  dcfg,          \* the batch call: entry point, epw_files, scenarios, plan
  futures,       \* every future submitted to the executor, in order
  pending,       \* the driver's set pending (retry_pending in the retry)
  results,       \* the driver's list results (flat_results)
  failed_tasks,  \* the tasks _run_all_tasks_parallel will submit again
  dpc,           \* position in the driver
  timed_out,     \* every future the driver has marked timed out
  report,        \* what run_material_comparison counted and wrote
  hvac_config,   \* the config dictionary the HVAC systems are built from
  prev_call,     \* the call made on the HVAC systems before the last one
  last_call,     \* the last call made on the HVAC systems, with its returns
  disk,          \* disk[path]: what the weather file at path holds
  epw_cache,     \* weather_data._EPW_CACHE, shared by the worker threads
  heap,          \* the BuildingModel objects created so far
  thread,        \* thread[t]: a worker thread's arguments, position and locals
  ecfg,          \* the configuration a SimulationEngine is constructed from
  built          \* what SimulationEngine(ecfg) gave, and whether it has run

simvars == << cfg, engine, current_date, hour, weather, pc, handled, probe >>

drivervars ==
  << dcfg, futures, pending, results, failed_tasks, dpc, timed_out, report >>

hvacvars == << hvac_config, prev_call, last_call >>

taskvars == << disk, epw_cache, heap, thread >>

\* the variables of the library calls modelled on their own
configvars == << ecfg, built >>

callvars == << hvacvars, taskvars, configvars >>

vars == << simvars, drivervars, callvars >>

\* no batch call is under way
NoCall == [driver |-> "none"]

NoReport == [succeeded |-> 0, failed |-> 0, tables |-> << >>,
             summary |-> << >>]

\* no call has been made on an HVAC system
NoAnswer == [op |-> "none"]

\* no HVAC system is exercised
HvacIdle ==
  /\ hvac_config = [cop_cooling |-> NoneVal, cop_heating |-> NoneVal]
  /\ prev_call = NoAnswer
  /\ last_call = NoAnswer

\* no worker thread is modelled
TaskIdle ==
  /\ disk = << >>
  /\ epw_cache = << >>
  /\ heap = << >>
  /\ thread = << >>

\* no engine is constructed from a configuration under test
ConfigIdle ==
  /\ ecfg = << >>
  /\ built = [pc |-> "idle"]

CallsIdle == HvacIdle /\ TaskIdle /\ ConfigIdle

DriverIdle ==
  /\ dcfg = NoCall
  /\ futures = << >>
  /\ pending = {}
  /\ results = << >>
  /\ failed_tasks = << >>
  /\ dpc = "idle"
  /\ timed_out = {}
  /\ report = NoReport

\* the runs compared: two engines over the same weather file and the same
\* configuration except for the material scenario, stepped together
Runs == 1..2

\* latest day on which a weather file may end
MaxDay == 2

\* largest configured warmup_days
MaxWarmup == 1

\* hour of day of the first and of the last record of a weather file
FirstHours == {0, 13}

LastHours == {11, 23}

Timesteps == {12, 24}

WeatherFiles ==
  [kind : {"summer", "winter", "mixed"}, first : FirstHours,
   last : {24 * d + h : d \in 1..MaxDay, h \in LastHours}]

\* the configurations explored: every timeline of a summer run of the
\* single wall, and every weather kind, building and scenario pair on the
\* two-day timeline
Configs ==
  {c \in [file : WeatherFiles, warmup_days : 0..MaxWarmup,
          timestep : Timesteps, building : {"wall", "envelope"},
          scenarios : {<<4, 5>>, <<1, 2>>, <<3, 1>>}] :
     \/ c.file.kind = "summer" /\ c.building = "wall"
        /\ c.scenarios = <<4, 5>>
     \/ c.file.first = 0 /\ c.file.last = 47 /\ c.warmup_days = 0
        /\ c.timestep = 12}

\* simulation_engine.py:61-62 with use_epw_dates: the first and the last
\* stamp of the weather file, minutes and seconds cleared, the hour kept
start_date == cfg.file.first

end_date == cfg.file.last

\* simulation_engine.py:114
warmup_end == start_date + 24 * cfg.warmup_days

\* datetime.replace(hour = h)
ReplaceHour(d, h) == (d \div 24) * 24 + h

current_time == ReplaceHour(current_date, hour)

\* SimulationEngine(cfg_path) followed by _apply_material_scenario
NewEngine(c, r) ==
  LET sc == Scenarios[c.scenarios[r]]
      bm == apply_material_scenario(BuildingModel(c.building), sc.wall, sc.roof)
  IN [building_model |-> bm,
      results |-> [hourly_loads |-> << >>, zone_temperatures |-> << >>,
                   surface_temperatures |-> << >>],
      hour_counter |-> 0]

NoProbe == [Q_cool |-> 0, Q_heat |-> 0, iterations |-> 0]

SimInit ==
  /\ cfg \in Configs
  /\ engine = [r \in Runs |-> NewEngine(cfg, r)]
  /\ current_date = cfg.file.first
  /\ hour = 0
  /\ weather = get_hourly_data(cfg.file, cfg.file.first)
  /\ pc = "loop"
  /\ handled = << >>
  /\ probe = [r \in Runs |->
                [z \in 1..Len(engine[r].building_model.zones) |-> NoProbe]]
  /\ DriverIdle
  /\ CallsIdle

\* ------------------------------------------------- SimulationEngine, steps

\* simulation_engine.py:119, "while current_date <= self.end_date"
WhileTest ==
  /\ pc = "loop"
  /\ current_date <= end_date
  /\ hour' = 0
  /\ pc' = "weather"
  /\ UNCHANGED << cfg, engine, current_date, weather, handled, probe >>
  /\ UNCHANGED << drivervars, callvars >>

\* the loop is left: run_simulation converts the tables and returns
Finish ==
  /\ pc = "loop"
  /\ ~(current_date <= end_date)
  /\ pc' = "done"
  /\ UNCHANGED << cfg, engine, current_date, hour, weather, handled, probe >>
  /\ UNCHANGED << drivervars, callvars >>

\* simulation_engine.py:122-125: current_time and its weather record
UpdateWeather ==
  /\ pc = "weather"
  /\ weather' = get_hourly_data(cfg.file, current_time)
  /\ handled' = Append(handled, current_time)
  /\ pc' = "balance"
  /\ UNCHANGED << cfg, engine, current_date, hour, probe >>
  /\ UNCHANGED << drivervars, callvars >>

\* the zones and the ghost record take what the calls of one step yield
TakeOutcome(out, balance_step) ==
  /\ engine' = [r \in Runs |->
                  [engine[r] EXCEPT !.building_model.zones =
                     [z \in DOMAIN out[r] |-> out[r][z].zone]]]
  /\ probe' = [r \in Runs |->
                 [z \in DOMAIN out[r] |->
                    IF balance_step
                    THEN [probe[r][z] EXCEPT
                            !.iterations = out[r][z].iterations]
                    ELSE [probe[r][z] EXCEPT
                            !.Q_cool = out[r][z].Q_cool,
                            !.Q_heat = out[r][z].Q_heat]]]

\* simulation_engine.py:128-129: _calculate_zone_heat_balance of every zone
HeatBalanceStep ==
  /\ pc = "balance"
  /\ TakeOutcome([r \in Runs |->
                    [z \in 1..Len(engine[r].building_model.zones) |->
                       calculate_zone_heat_balance(
                         engine[r].building_model.constructions,
                         engine[r].building_model.zones[z], weather)]],
                 TRUE)
  /\ pc' = "hvac"
  /\ UNCHANGED << cfg, current_date, hour, weather, handled >>
  /\ UNCHANGED << drivervars, callvars >>

\* simulation_engine.py:132-133: _calculate_hvac_load of every zone
HvacStep ==
  /\ pc = "hvac"
  /\ TakeOutcome([r \in Runs |->
                    [z \in 1..Len(engine[r].building_model.zones) |->
                       calculate_hvac_load(
                         engine[r].building_model.constructions,
                         engine[r].building_model.zones[z], weather)]],
                 FALSE)
  /\ pc' = "store"
  /\ UNCHANGED << cfg, current_date, hour, weather, handled >>
  /\ UNCHANGED << drivervars, callvars >>

\* a store that ignores the warm-up
StoreAlways(date, first_stored) == TRUE

\* simulation_engine.py:136, "if current_date >= warmup_end"
PastWarmup(date, first_stored) == date >= first_stored

RECURSIVE Flatten(_)
\* the concatenation of a sequence of sequences
Flatten(ss) == IF ss = << >> THEN << >> ELSE Head(ss) \o Flatten(Tail(ss))

\* SimulationEngine._store_results: one row per zone in hourly_loads and in
\* zone_temperatures, one per surface in surface_temperatures
store_results(e, time) ==
  LET zones == e.building_model.zones
  IN [e EXCEPT
        !.results.hourly_loads = @ \o
           [z \in 1..Len(zones) |->
              [Hour |-> e.hour_counter, DateTime |-> time,
               Zone |-> zones[z].name,
               cooling_load |-> zones[z].cooling_load,
               heating_load |-> zones[z].heating_load,
               latent_load |-> zones[z].latent_load,
               cooling_energy |-> zones[z].cooling_energy,
               heating_energy |-> zones[z].heating_energy]],
        !.results.zone_temperatures = @ \o
           [z \in 1..Len(zones) |->
              [Hour |-> e.hour_counter, DateTime |-> time,
               Zone |-> zones[z].name, temperature |-> zones[z].temperature]],
        !.results.surface_temperatures = @ \o
           Flatten([z \in 1..Len(zones) |->
              [i \in 1..Len(zones[z].surface_temperatures) |->
                 [Hour |-> e.hour_counter, DateTime |-> time,
                  Zone |-> zones[z].name,
                  Surface |-> zones[z].surfaces[i].name,
                  temperature |-> zones[z].surface_temperatures[i]]]])]

\* the end of the body of "for hour in range(0, 24, self.timestep)": the
\* next hour of the day, or simulation_engine.py:143 after the last one
NextHour ==
  IF hour + cfg.timestep < 24
  THEN /\ hour' = hour + cfg.timestep
       /\ pc' = "weather"
       /\ UNCHANGED current_date
  ELSE /\ current_date' = current_date + 24
       /\ pc' = "loop"
       /\ UNCHANGED hour

\* simulation_engine.py:136-138 past the warm-up
StoreResults ==
  /\ pc = "store"
  /\ PastWarmup(current_date, warmup_end)
  /\ engine' = [r \in Runs |->
                  [store_results(engine[r], current_time)
                     EXCEPT !.hour_counter = @ + 1]]
  /\ NextHour
  /\ UNCHANGED << cfg, weather, handled, probe >>
  /\ UNCHANGED << drivervars, callvars >>

\* simulation_engine.py:136 during the warm-up: nothing is stored
SkipWarmup ==
  /\ pc = "store"
  /\ ~PastWarmup(current_date, warmup_end)
  /\ NextHour
  /\ UNCHANGED << cfg, engine, weather, handled, probe >>
  /\ UNCHANGED << drivervars, callvars >>

SimNext ==
  \/ WhileTest
  \/ UpdateWeather
  \/ HeatBalanceStep
  \/ HvacStep
  \/ StoreResults
  \/ SkipWarmup
  \/ Finish

Spec == SimInit /\ [][SimNext]_vars

\* ------------------------------------------------- SimulationEngine, claims

ZonesOf(r) == engine[r].building_model.zones

\* C1: after _calculate_hvac_load, cooling_load is max(0, Q_cool) and
\* heating_load is max(0, -Q_heat): both loads are never negative, the
\* cooling load is positive exactly when Q_cool > 0 and the heating load
\* exactly when Q_heat < 0
C1_LoadsClamped ==
  \A r \in Runs : \A z \in DOMAIN ZonesOf(r) :
    LET zn == ZonesOf(r)[z]
        Q == probe[r][z]
    IN /\ zn.cooling_load = (IF Q.Q_cool >= 0 THEN Q.Q_cool ELSE 0)
       /\ zn.heating_load = (IF Q.Q_heat <= 0 THEN -Q.Q_heat ELSE 0)
       /\ zn.cooling_load >= 0 /\ zn.heating_load >= 0
       /\ (zn.cooling_load > 0 <=> Q.Q_cool > 0)
       /\ (zn.heating_load > 0 <=> Q.Q_heat < 0)

\* a timestep whose two balances have opposite effects on the loads: the
\* zone gains heat at both setpoints, so it is cooled and not heated
C1_Witness ==
  /\ pc = "store"
  /\ \E r \in Runs : \E z \in DOMAIN ZonesOf(r) :
       /\ probe[r][z].Q_cool > 0 /\ ZonesOf(r)[z].cooling_load > 0
       /\ probe[r][z].Q_heat > 0 /\ ZonesOf(r)[z].heating_load = 0

\* the three result tables of run r
TablesOf(r) == engine[r].results

\* C2: a timestep appends rows to the result tables exactly when
\* current_date >= start_date + warmup_days; a timestep of the warm-up has
\* had its heat balance and HVAC computations (the zone carries their
\* surface snapshot) but appends nothing to any table
C2_StoredAfterWarmup ==
  [][\A r \in Runs :
       IF pc = "store" /\ current_date >= start_date + 24 * cfg.warmup_days
       THEN /\ Len(TablesOf(r).hourly_loads)' =
                 Len(TablesOf(r).hourly_loads) + Len(ZonesOf(r))
            /\ Len(TablesOf(r).zone_temperatures)' =
                 Len(TablesOf(r).zone_temperatures) + Len(ZonesOf(r))
            /\ Len(TablesOf(r).surface_temperatures)' >
                 Len(TablesOf(r).surface_temperatures)
            /\ \A i \in DOMAIN TablesOf(r).hourly_loads' :
                 i > Len(TablesOf(r).hourly_loads)
                   => TablesOf(r).hourly_loads'[i].DateTime = current_time
       ELSE /\ TablesOf(r)' = TablesOf(r)
            /\ pc = "store" =>
                 \A z \in DOMAIN ZonesOf(r) :
                   /\ ZonesOf(r)[z].surface_temperatures # << >>
                   /\ ZonesOf(r)' = ZonesOf(r)]_simvars

\* a run past its warm-up: rows are stored, and more timesteps were begun
\* than were stored
C2_Witness ==
  /\ cfg.warmup_days > 0
  /\ pc = "loop"
  /\ \E r \in Runs :
       /\ TablesOf(r).hourly_loads # << >>
       /\ Len(handled) > Len(TablesOf(r).hourly_loads)

\* the timesteps of every day from start_date through end_date, in order
ExpectedTimesteps ==
  LET slots == (24 + cfg.timestep - 1) \div cfg.timestep
      days == end_date \div 24 - start_date \div 24 + 1
  IN [i \in 1..(days * slots) |->
        24 * (start_date \div 24 + (i - 1) \div slots)
        + ((i - 1) % slots) * cfg.timestep]

\* C3 (timesteps): when run_simulation has returned, it has handled every
\* timestep of every day from start_date through end_date exactly once, in
\* increasing order
C3_EveryTimestepOnce == pc = "done" => handled = ExpectedTimesteps

\* C3 (iterations): the coupled iteration of a zone makes at most
\* max_iterations passes
C3_IterationsBounded ==
  \A r \in Runs : \A z \in DOMAIN probe[r] :
    probe[r][z].iterations <= max_iterations

\* C4: the HVAC probes (compute_sensible_balance at the two setpoints) leave
\* the free-float temperature of every zone as they found it
C4_ProbeKeepsTemperature ==
  [][pc = "hvac" =>
       \A r \in Runs : \A z \in DOMAIN ZonesOf(r) :
         ZonesOf(r)'[z].temperature = ZonesOf(r)[z].temperature]_simvars

\* the probes have run on a zone whose free-float temperature is neither
\* setpoint
C4_Witness ==
  /\ pc = "store"
  /\ \E r \in Runs : \E z \in DOMAIN ZonesOf(r) :
       /\ ZonesOf(r)[z].temperature # hvac_system.cooling_setpoint
       /\ ZonesOf(r)[z].temperature # hvac_system.heating_setpoint
       /\ probe[r][z].Q_cool # probe[r][z].Q_heat

\* the absorptance the solver uses for a surface (heat_balance.py:252)
EffectiveAbsorptance(r, z, i) ==
  LET sf == ZonesOf(r)[z].surfaces[i]
  IN IF sf.solar_absorptance # NoneVal THEN sf.solar_absorptance
     ELSE engine[r].building_model.constructions[sf.construction]
            .layers[1].solar_absorptance

\* run 2 differs from run 1 only in solar absorptance, and has the lower one
\* on every surface the sun reaches
LowerAbsorptanceOnly ==
  LET a == Scenarios[cfg.scenarios[1]]
      b == Scenarios[cfg.scenarios[2]]
  IN /\ a.wall.emissivity = b.wall.emissivity
     /\ a.roof.emissivity = b.roof.emissivity
     /\ a.wall.conductivity = b.wall.conductivity
     /\ a.roof.conductivity = b.roof.conductivity
     /\ \A z \in DOMAIN ZonesOf(1) : \A i \in DOMAIN ZonesOf(1)[z].surfaces :
          ZonesOf(1)[z].surfaces[i].orientation # "Floor"
            => EffectiveAbsorptance(2, z, i) < EffectiveAbsorptance(1, z, i)

\* the total cooling energy of run r (get_summary), kJ
TotalCooling(r) ==
  SumTo([i \in DOMAIN TablesOf(r).hourly_loads |->
           TablesOf(r).hourly_loads[i].cooling_energy],
        Len(TablesOf(r).hourly_loads))

\* C5: of two finished runs over the same weather, sunny at every hour with
\* the outdoor air above the cooling setpoint, the run with the lower solar
\* absorptance has the strictly lower total cooling energy
C5_LowerAbsorptanceLessCooling ==
  (/\ pc = "done"
   /\ cfg.file.kind = "summer"
   /\ LowerAbsorptanceOnly
   /\ TablesOf(1).hourly_loads # << >>)
  => TotalCooling(2) < TotalCooling(1)


\* ------------------------------------- compare_materials.py, batch drivers

\* the weather files find_epw_files can return, in the order of their sorted
\* paths: weather/a/x.epw, weather/b/x.epw and weather/b/y.epw
EpwPaths ==
  << [dir |-> "a", base |-> "x"], [dir |-> "b", base |-> "x"],
     [dir |-> "b", base |-> "y"] >>

\* os.path.splitext(os.path.basename(epw_path))[0]
epw_name(path) == path.base

\* the base names in the order in which pandas' groupby sorts its keys
BaseNames == << "x", "y" >>

\* r.get('epw') of a record that has no such key
NoPath == [dir |-> "", base |-> ""]

NoRow == [EPW |-> "", Scenario |-> "", Total_HVAC_Energy_kWh |-> 0]

\* what engine.get_summary() reports for a weather file and a scenario:
\* a different total for every pair
total_hvac_energy(path, s) ==
  100 * (CHOOSE i \in DOMAIN EpwPaths : EpwPaths[i] = path) + 10 * s

\* the row _worker_one and _worker_epw_batch build from a finished run
ResultRow(path, scenarios, s) ==
  [EPW |-> epw_name(path), Scenario |-> scenarios[s].name,
   Total_HVAC_Energy_kWh |-> total_hvac_energy(path, s)]

\* {'ok': True, 'row': row}; fut names the future the entry stems from
Success(row, f) ==
  [ok |-> TRUE, row |-> row, epw |-> NoPath, scenario |-> "", error |-> "",
   fut |-> f]

\* {'ok': False, 'error': ..., 'scenario': ..., 'epw': ...}
Failure(path, scenario_name, error, f) ==
  [ok |-> FALSE, row |-> NoRow, epw |-> path, scenario |-> scenario_name,
   error |-> error, fut |-> f]

\* the tasks of a call, in the order in which they are submitted
AllTasks(c) ==
  IF c.driver = "pairs"
  THEN [i \in 1..(Len(c.epw_files) * Len(c.scenarios)) |->
          << ((i - 1) \div Len(c.scenarios)) + 1,
             ((i - 1) % Len(c.scenarios)) + 1 >>]
  ELSE [e \in 1..Len(c.epw_files) |-> << e, 0 >>]

\* the (weather file, scenario) combinations of a call
Combinations(c) == (1..Len(c.epw_files)) \X (1..Len(c.scenarios))

\* a future as the executor holds it: queued, running, finished or
\* cancelled; k, rows and errors are the locals of _worker_epw_batch
NewFuture(task, attempt) ==
  [task |-> task, attempt |-> attempt, status |-> "queued", k |-> 0,
   rows |-> << >>, errors |-> << >>,
   res |-> [raised |-> FALSE, ok |-> FALSE, rows |-> << >>,
            errors |-> << >>]]

\* most combinations of one call whose attempts do not all succeed
MaxBad == 1

\* most futures of one call that the driver marks timed out
MaxTimeouts == 1

\* what the two attempts of a combination yield: "ok", "fail" (an exception
\* the worker catches) or "raise" (one it lets out of the future).  The
\* per-weather-file driver attempts a combination once, and its worker
\* catches every exception of a scenario
Attempts(driver) ==
  IF driver = "pairs"
  THEN {<<"fail", "ok">>, <<"fail", "fail">>, <<"ok", "fail">>,
        <<"raise", "raise">>}
  ELSE {<<"fail", "fail">>}

\* the plan in which the combinations of bad yield what bad says and every
\* other attempt succeeds
PlanOf(c, bad) ==
  [t \in Combinations(c) |->
     IF t \in DOMAIN bad THEN bad[t] ELSE <<"ok", "ok">>]

Plans(c) ==
  UNION {{PlanOf(c, bad) : bad \in [T -> Attempts(c.driver)]} :
           T \in {T \in SUBSET Combinations(c) : Cardinality(T) <= MaxBad}}

\* the calls explored: run_material_comparison's driver with one or two
\* weather files (two of them with the same base name or not), the
\* declared scenarios or the first two of them, and one or two workers;
\* the per-pair driver with one weather file, the declared scenarios and
\* two workers
Calls ==
  {c \in [driver : {"pairs", "batch"},
          epw_files : {<< EpwPaths[1] >>, << EpwPaths[1], EpwPaths[3] >>,
                       << EpwPaths[1], EpwPaths[2] >>},
          scenarios : {build_scenarios, SubSeq(build_scenarios, 1, 2)},
          max_workers : {1, 2}] :
     /\ c.max_workers <= Len(AllTasks(c))
     /\ c.driver = "pairs" =>
          /\ c.epw_files = << EpwPaths[1] >>
          /\ c.scenarios = build_scenarios
          /\ c.max_workers = 2}

\* a weather file the worker's first print fails on, one that does not
\* exist: at most one of the two, and only for the first file
Mishaps == {[crash |-> {}, missing |-> {}], [crash |-> {1}, missing |-> {}],
            [crash |-> {}, missing |-> {1}]}

DriverConfigs ==
  UNION {{[driver |-> c.driver, epw_files |-> c.epw_files,
           scenarios |-> c.scenarios, max_workers |-> c.max_workers,
           plan |-> p, crash |-> m.crash, missing |-> m.missing] :
            p \in Plans(c),
            m \in IF c.driver = "batch" THEN Mishaps
                  ELSE {[crash |-> {}, missing |-> {}]}} :
         c \in Calls}


\* the simulation variables while a batch call is modelled: the runs behind
\* the rows are taken from the plan, no engine is stepped
SimIdle ==
  /\ cfg = [file |-> [kind |-> "summer", first |-> 0, last |-> 23],
            warmup_days |-> 0, timestep |-> 24, building |-> "wall",
            scenarios |-> <<1, 1>>]
  /\ engine = << >>
  /\ current_date = 0
  /\ hour = 0
  /\ weather = RecordAt("summer", 0)
  /\ pc = "idle"
  /\ handled = << >>
  /\ probe = << >>

DriverInit ==
  /\ dcfg \in DriverConfigs
  /\ futures = << >>
  /\ pending = {}
  /\ results = << >>
  /\ failed_tasks = << >>
  /\ dpc = "start"
  /\ timed_out = {}
  /\ report = NoReport
  /\ SimIdle
  /\ CallsIdle

\* -------------------------------------------------- the executor's workers

Queued == {f \in DOMAIN futures : futures[f].status = "queued"}

Running == {f \in DOMAIN futures : futures[f].status = "running"}

\* a free worker of the pool takes the oldest queued future
WorkerStart ==
  /\ Queued # {}
  /\ Cardinality(Running) < dcfg.max_workers
  /\ futures' = [futures EXCEPT
                   ![CHOOSE f \in Queued : \A g \in Queued : f <= g].status =
                      "running"]
  /\ UNCHANGED << dcfg, pending, results, failed_tasks, dpc, timed_out,
                  report >>
  /\ UNCHANGED << simvars, callvars >>

\* _worker_one: the row of the run, the failure the except clause returns,
\* or an exception raised before the try block is entered
worker_one(c, fut) ==
  LET outcome == c.plan[fut.task][fut.attempt]
      path == c.epw_files[fut.task[1]]
  IN [raised |-> outcome = "raise",
      ok |-> outcome = "ok",
      rows |-> IF outcome = "ok"
               THEN << ResultRow(path, c.scenarios, fut.task[2]) >>
               ELSE << >>,
      errors |-> IF outcome = "fail"
                 THEN << c.scenarios[fut.task[2]].name >> ELSE << >>]

WorkerOne(f) ==
  /\ dcfg.driver = "pairs"
  /\ futures[f].status = "running"
  /\ futures' = [futures EXCEPT ![f].status = "finished",
                                ![f].res = worker_one(dcfg, futures[f])]
  /\ UNCHANGED << dcfg, pending, results, failed_tasks, dpc, timed_out,
                  report >>
  /\ UNCHANGED << simvars, callvars >>

\* a worker that gives up the weather file at its first failing scenario
StopAtFailure(k, n, succeeded) == IF succeeded THEN k + 1 ELSE n + 1

\* compare_materials.py:455 and 516-534: the except clause of a scenario
\* ends that scenario only, the for loop goes on with the next one
AfterScenario(k, n, succeeded) == k + 1

\* compare_materials.py:561-579: ok when there is at least one row
worker_return(rows, errors) ==
  [raised |-> FALSE, ok |-> rows # << >>, rows |-> rows, errors |-> errors]

\* _worker_epw_batch, one step of it: the preprocessing of the weather file
\* (k = 0), then one scenario per step; the return follows the last one
worker_epw_batch(c, fut) ==
  LET e == fut.task[1]
      n == Len(c.scenarios)
      succeeded == c.plan[<< e, fut.k >>][1] = "ok"
      rows == IF succeeded
              THEN Append(fut.rows,
                          ResultRow(c.epw_files[e], c.scenarios, fut.k))
              ELSE fut.rows
      errors == IF succeeded THEN fut.errors
                ELSE Append(fut.errors, c.scenarios[fut.k].name)
  IN IF fut.k = 0
     THEN IF e \in c.crash
          THEN [fut EXCEPT !.status = "finished", !.res.raised = TRUE]
          ELSE IF e \in c.missing
          THEN [fut EXCEPT !.status = "finished",
                           !.res = worker_return(<< >>, << "all" >>)]
          ELSE [fut EXCEPT !.k = 1]
     ELSE IF AfterScenario(fut.k, n, succeeded) > n
          THEN [fut EXCEPT !.status = "finished", !.rows = rows,
                           !.errors = errors,
                           !.k = AfterScenario(fut.k, n, succeeded),
                           !.res = worker_return(rows, errors)]
          ELSE [fut EXCEPT !.rows = rows, !.errors = errors,
                           !.k = AfterScenario(fut.k, n, succeeded)]

WorkerEpwBatch(f) ==
  /\ dcfg.driver = "batch"
  /\ futures[f].status = "running"
  /\ futures' = [futures EXCEPT ![f] = worker_epw_batch(dcfg, futures[f])]
  /\ UNCHANGED << dcfg, pending, results, failed_tasks, dpc, timed_out,
                  report >>
  /\ UNCHANGED << simvars, callvars >>


\* ------------------------------------------------ _run_all_tasks_parallel

TaskPath(fut) == dcfg.epw_files[fut.task[1]]

ScenarioName(fut) == dcfg.scenarios[fut.task[2]].name

\* compare_materials.py:594-624 and 799-807: one future per task
SubmitAll ==
  /\ dpc = "start"
  /\ futures' = [i \in 1..Len(AllTasks(dcfg)) |->
                   NewFuture(AllTasks(dcfg)[i], 1)]
  /\ pending' = 1..Len(AllTasks(dcfg))
  /\ dpc' = "first"
  /\ UNCHANGED << dcfg, results, failed_tasks, timed_out, report >>
  /\ UNCHANGED << simvars, callvars >>

\* a driver that leaves a future it has given up in the set it waits on
KeepIn(waiting, f) == waiting

\* pending.remove(f)
RemoveFrom(waiting, f) == waiting \ {f}

\* f.cancel(): a future still in the queue is cancelled, one that runs or
\* has finished is not touched
Cancel(fs, f) ==
  IF fs[f].status = "queued" THEN [fs EXCEPT ![f].status = "cancelled"]
  ELSE fs

\* what fut.result() of a future of _worker_one puts into results: the
\* dictionary the worker returned, or the entry built from its exception
EntryOf(f) ==
  LET fut == futures[f]
  IN IF fut.res.raised
     THEN Failure(TaskPath(fut), ScenarioName(fut), "exception", f)
     ELSE IF fut.res.ok THEN Success(fut.res.rows[1], f)
     ELSE Failure(TaskPath(fut), ScenarioName(fut), "failed", f)

\* compare_materials.py:631-650: a finished future of the first pass
CollectDone(f) ==
  /\ dcfg.driver = "pairs"
  /\ dpc = "first"
  /\ f \in pending
  /\ futures[f].status = "finished"
  /\ pending' = RemoveFrom(pending, f)
  /\ results' = Append(results, EntryOf(f))
  /\ failed_tasks' = IF futures[f].res.ok THEN failed_tasks
                     ELSE Append(failed_tasks, futures[f].task)
  /\ UNCHANGED << dcfg, futures, dpc, timed_out, report >>
  /\ UNCHANGED << simvars, callvars >>

\* compare_materials.py:653-667: a future that wait() did not report done
\* and whose time since submission exceeds the timeout
MarkTimedOut(f) ==
  /\ dcfg.driver = "pairs"
  /\ dpc = "first"
  /\ f \in pending
  /\ Cardinality(timed_out) < MaxTimeouts
  /\ pending' = RemoveFrom(pending, f)
  /\ failed_tasks' = Append(failed_tasks, futures[f].task)
  /\ results' = Append(results,
                       Failure(TaskPath(futures[f]), ScenarioName(futures[f]),
                               "timeout", f))
  /\ futures' = Cancel(futures, f)
  /\ timed_out' = timed_out \cup {f}
  /\ UNCHANGED << dcfg, dpc, report >>
  /\ UNCHANGED << simvars, callvars >>

\* compare_materials.py:670-680: every failed task is submitted once more
RetrySubmit ==
  /\ dcfg.driver = "pairs"
  /\ dpc = "first"
  /\ pending = {}
  /\ failed_tasks # << >>
  /\ futures' = futures \o
                [i \in 1..Len(failed_tasks) |-> NewFuture(failed_tasks[i], 2)]
  /\ pending' = (Len(futures) + 1)..(Len(futures) + Len(failed_tasks))
  /\ dpc' = "retry"
  /\ UNCHANGED << dcfg, results, failed_tasks, timed_out, report >>
  /\ UNCHANGED << simvars, callvars >>

\* compare_materials.py:692-694 and 720-722: the entries that carry the
\* task's epw and scenario are dropped
WithoutTask(rs, fut) ==
  SelectSeq(rs, LAMBDA r : ~(r.epw = TaskPath(fut)
                             /\ r.scenario = ScenarioName(fut)))

\* compare_materials.py:696-708: the result is appended, and appended once
\* more in the else branch of "if res.get('ok')"
RetryEntries(f) ==
  IF futures[f].res.raised \/ futures[f].res.ok THEN << EntryOf(f) >>
  ELSE << EntryOf(f), EntryOf(f) >>

\* compare_materials.py:685-708: a finished future of the retry
CollectRetry(f) ==
  /\ dcfg.driver = "pairs"
  /\ dpc = "retry"
  /\ f \in pending
  /\ futures[f].status = "finished"
  /\ pending' = RemoveFrom(pending, f)
  /\ results' = WithoutTask(results, futures[f]) \o RetryEntries(f)
  /\ UNCHANGED << dcfg, futures, failed_tasks, dpc, timed_out, report >>
  /\ UNCHANGED << simvars, callvars >>

\* compare_materials.py:711-727: a future of the retry that timed out
MarkRetryTimedOut(f) ==
  /\ dcfg.driver = "pairs"
  /\ dpc = "retry"
  /\ f \in pending
  /\ Cardinality(timed_out) < MaxTimeouts
  /\ pending' = RemoveFrom(pending, f)
  /\ results' = Append(WithoutTask(results, futures[f]),
                       Failure(TaskPath(futures[f]), ScenarioName(futures[f]),
                               "timeout", f))
  /\ futures' = Cancel(futures, f)
  /\ timed_out' = timed_out \cup {f}
  /\ UNCHANGED << dcfg, failed_tasks, dpc, report >>
  /\ UNCHANGED << simvars, callvars >>

\* the with block is left, which waits for every future that was not
\* cancelled, and compare_materials.py:729 returns results
PairsReturn ==
  /\ dcfg.driver = "pairs"
  /\ \/ dpc = "first" /\ failed_tasks = << >>
     \/ dpc = "retry"
  /\ pending = {}
  /\ Queued = {} /\ Running = {}
  /\ dpc' = "returned"
  /\ UNCHANGED << dcfg, futures, pending, results, failed_tasks, timed_out,
                  report >>
  /\ UNCHANGED << simvars, callvars >>


\* ------------------------------------------ _run_all_tasks_parallel_batch

\* compare_materials.py:814-853: the rows of a worker that returned ok, one
\* entry for the weather file otherwise; partial_errors are only printed
EpwEntries(f) ==
  LET fut == futures[f]
  IN IF fut.res.raised
     THEN << Failure(TaskPath(fut), "", "exception", f) >>
     ELSE IF fut.res.ok
     THEN [i \in 1..Len(fut.res.rows) |-> Success(fut.res.rows[i], f)]
     ELSE << Failure(TaskPath(fut), "", "all failed", f) >>

\* compare_materials.py:810-853: a finished future
CollectEpw(f) ==
  /\ dcfg.driver = "batch"
  /\ dpc = "first"
  /\ f \in pending
  /\ futures[f].status = "finished"
  /\ pending' = RemoveFrom(pending, f)
  /\ results' = results \o EpwEntries(f)
  /\ UNCHANGED << dcfg, futures, failed_tasks, dpc, timed_out, report >>
  /\ UNCHANGED << simvars, callvars >>

\* compare_materials.py:855-862: a future that timed out; it is neither
\* cancelled nor noted for another attempt
MarkEpwTimedOut(f) ==
  /\ dcfg.driver = "batch"
  /\ dpc = "first"
  /\ f \in pending
  /\ Cardinality(timed_out) < MaxTimeouts
  /\ pending' = RemoveFrom(pending, f)
  /\ results' = Append(results, Failure(TaskPath(futures[f]), "", "timeout", f))
  /\ timed_out' = timed_out \cup {f}
  /\ UNCHANGED << dcfg, futures, failed_tasks, dpc, report >>
  /\ UNCHANGED << simvars, callvars >>

\* the with block is left once every worker has finished, and
\* compare_materials.py:879 returns flat_results
BatchReturn ==
  /\ dcfg.driver = "batch"
  /\ dpc = "first"
  /\ pending = {}
  /\ Queued = {} /\ Running = {}
  /\ dpc' = "returned"
  /\ UNCHANGED << dcfg, futures, pending, results, failed_tasks, timed_out,
                  report >>
  /\ UNCHANGED << simvars, callvars >>

\* ------------------------------------------------ run_material_comparison

\* compare_materials.py:971-977
AllRows(rs) ==
  LET oks == SelectSeq(rs, LAMBDA r : r.ok)
  IN [i \in 1..Len(oks) |-> oks[i].row]

FailedCount(rs) == Len(SelectSeq(rs, LAMBDA r : ~r.ok))

\* compare_materials.py:1011, {sc['name']: i for i, sc in enumerate(...)}:
\* the last position at which the name is declared
OrderOf(scenarios, name) ==
  CHOOSE i \in DOMAIN scenarios :
    /\ scenarios[i].name = name
    /\ \A j \in DOMAIN scenarios : scenarios[j].name = name => j <= i

\* the orders in which a sort may leave rows whose keys are equal
PermsOf(q) ==
  IF q = << >> THEN {<< >>}
  ELSE {[i \in DOMAIN q |-> q[p[i]]] : p \in Permutations(DOMAIN q)}

RECURSIVE SortedFrom(_, _, _)
\* the rows of group whose key is i or more, by ascending key
SortedFrom(group, scenarios, i) ==
  IF i > Len(scenarios) THEN {<< >>}
  ELSE {a \o b :
          a \in PermsOf(SelectSeq(group,
                          LAMBDA r : OrderOf(scenarios, r.Scenario) = i)),
          b \in SortedFrom(group, scenarios, i + 1)}

\* compare_materials.py:1012, sort_values on the mapped Scenario column
\* with the default kind, which is not a stable sort: every order by
\* ascending key is a possible result
SortByScenario(group, scenarios) == SortedFrom(group, scenarios, 1)

\* df_all.groupby('EPW'): the groups in the order of their keys, the rows
\* of a group in the order they have in df_all
GroupByEpw(rows) ==
  LET present == SelectSeq(BaseNames,
                   LAMBDA b : \E i \in DOMAIN rows : rows[i].EPW = b)
  IN [g \in DOMAIN present |->
        [EPW |-> present[g],
         rows |-> SelectSeq(rows, LAMBDA r : r.EPW = present[g])]]

\* the rows of a group that belong to the baseline scenario
BaselineRows(group, scenarios) ==
  SelectSeq(group, LAMBDA r : r.Scenario = scenarios[1].name)

\* compare_materials.py:1018-1036: Delta_Energy_kWh against the first
\* baseline row of the sorted group, None without one
ComparisonTable(sorted, scenarios) ==
  [i \in DOMAIN sorted |->
     [EPW |-> sorted[i].EPW, Scenario |-> sorted[i].Scenario,
      Total_HVAC_Energy_kWh |-> sorted[i].Total_HVAC_Energy_kWh,
      has_delta |-> BaselineRows(sorted, scenarios) # << >>,
      Delta_Energy_kWh |->
        IF BaselineRows(sorted, scenarios) # << >>
        THEN sorted[i].Total_HVAC_Energy_kWh
             - BaselineRows(sorted, scenarios)[1].Total_HVAC_Energy_kWh
        ELSE 0]]

\* compare_materials.py:1045-1062: the saving against the baseline row of
\* the group, or against the group's first row when it has none
SavingTable(group, scenarios) ==
  LET baseline_row == BaselineRows(group, scenarios)
      base == IF baseline_row # << >>
              THEN baseline_row[1].Total_HVAC_Energy_kWh
              ELSE group[1].Total_HVAC_Energy_kWh
  IN [i \in DOMAIN group |->
        [EPW |-> group[i].EPW, Scenario |-> group[i].Scenario,
         Total_HVAC_Energy_kWh |-> group[i].Total_HVAC_Energy_kWh,
         Saving |-> base - group[i].Total_HVAC_Energy_kWh]]

\* one sorted order for every group
SortedGroups(groups, scenarios) ==
  {t \in [DOMAIN groups ->
            UNION {SortByScenario(groups[g].rows, scenarios) :
                     g \in DOMAIN groups}] :
     \A g \in DOMAIN groups :
       t[g] \in SortByScenario(groups[g].rows, scenarios)}

\* compare_materials.py:970-1066: the counts printed, one comparison table
\* per group (written to <EPW>_radiative_cooling_comparison.xlsx) and the
\* summary of all groups, for every result the sort can have
ReportsOf(rs, scenarios) ==
  LET groups == GroupByEpw(AllRows(rs))
  IN {[succeeded |-> Len(AllRows(rs)),
       failed |-> FailedCount(rs),
       tables |-> [g \in DOMAIN groups |->
                     [EPW |-> groups[g].EPW,
                      rows |-> ComparisonTable(t[g], scenarios)]],
       summary |-> Flatten([g \in DOMAIN groups |->
                              SavingTable(groups[g].rows, scenarios)])] :
        t \in SortedGroups(groups, scenarios)}

\* run_material_comparison after its call of _run_all_tasks_parallel_batch
RunMaterialComparison ==
  /\ dcfg.driver = "batch"
  /\ dpc = "returned"
  /\ report' \in ReportsOf(results, dcfg.scenarios)
  /\ dpc' = "reported"
  /\ UNCHANGED << dcfg, futures, pending, results, failed_tasks, timed_out >>
  /\ UNCHANGED << simvars, callvars >>

DriverNext ==
  \/ SubmitAll
  \/ WorkerStart
  \/ \E f \in DOMAIN futures : WorkerOne(f)
  \/ \E f \in DOMAIN futures : WorkerEpwBatch(f)
  \/ \E f \in DOMAIN futures : CollectDone(f)
  \/ \E f \in DOMAIN futures : MarkTimedOut(f)
  \/ RetrySubmit
  \/ \E f \in DOMAIN futures : CollectRetry(f)
  \/ \E f \in DOMAIN futures : MarkRetryTimedOut(f)
  \/ PairsReturn
  \/ \E f \in DOMAIN futures : CollectEpw(f)
  \/ \E f \in DOMAIN futures : MarkEpwTimedOut(f)
  \/ BatchReturn
  \/ RunMaterialComparison

SpecDriver == DriverInit /\ [][DriverNext]_vars


\* --------------------------------------------------- batch drivers, claims

\* the driver call has returned
Returned == dpc \in {"returned", "reported"}

\* the futures in which the combination t was attempted: its own futures in
\* the per-pair driver, the futures of its weather file in the other
FuturesOf(t) ==
  {f \in DOMAIN futures :
     IF dcfg.driver = "pairs" THEN futures[f].task = t
     ELSE futures[f].task[1] = t[1]}

FirstAttempt(t) ==
  CHOOSE f \in FuturesOf(t) : \A g \in FuturesOf(t) : f <= g

LastAttempt(t) ==
  CHOOSE f \in FuturesOf(t) : \A g \in FuturesOf(t) : g <= f

\* the attempt f of the combination t did not yield a row to the driver: it
\* was given up, or its simulation failed
AttemptFailed(t, f) ==
  \/ f \in timed_out
  \/ dcfg.plan[t][futures[f].attempt] # "ok"
  \/ t[1] \in dcfg.crash \cup dcfg.missing

FinallyFailed(t) == AttemptFailed(t, LastAttempt(t))

\* the success entries of results that stem from the combination t
SuccessesFor(t) ==
  Cardinality({i \in DOMAIN results :
                 /\ results[i].ok
                 /\ results[i].fut \in FuturesOf(t)
                 /\ results[i].row.Scenario = dcfg.scenarios[t[2]].name})

\* C6: when the driver has returned, results hold a success row for every
\* combination that did not finally fail, whatever combinations failed by
\* returning a failure or by raising: a failure stops neither the batch nor
\* the later scenarios of the same weather file.
C6_SuccessForEverySucceeded ==
  Returned =>
    \A t \in Combinations(dcfg) : ~FinallyFailed(t) => SuccessesFor(t) >= 1

\* the per-weather-file driver has returned, a scenario of a weather file
\* failed and a later scenario of the same file has its row
C6_Witness ==
  /\ Returned
  /\ dcfg.driver = "batch"
  /\ \E t \in Combinations(dcfg), u \in Combinations(dcfg) :
       /\ t[1] = u[1] /\ t[2] < u[2]
       /\ dcfg.plan[t][1] # "ok"
       /\ FuturesOf(t) \cap timed_out = {}
       /\ SuccessesFor(u) = 1

\* C7: when the driver has returned, results hold exactly one success for
\* every combination that succeeded and none for one that finally failed,
\* and as many failure entries as combinations finally failed; the counts
\* run_material_comparison prints are these numbers.
C7_OneEntryPerTask ==
  LET failed == {t \in Combinations(dcfg) : FinallyFailed(t)}
  IN Returned =>
       /\ \A t \in Combinations(dcfg) :
            SuccessesFor(t) = IF t \in failed THEN 0 ELSE 1
       /\ FailedCount(results) = Cardinality(failed)
       /\ dpc = "reported" =>
            /\ report.succeeded = Cardinality(Combinations(dcfg) \ failed)
            /\ report.failed = Cardinality(failed)

\* C8: when the driver has returned, every combination whose first attempt
\* failed or timed out has been attempted exactly twice, every other one
\* exactly once, in both entry points.
C8_RetriedExactlyOnce ==
  Returned =>
    \A t \in Combinations(dcfg) :
      Cardinality(FuturesOf(t)) =
        IF AttemptFailed(t, FirstAttempt(t)) THEN 2 ELSE 1

\* C9: an attempt that was marked timed out leaves nothing in results but
\* the failure entry of its timeout, also when its computation finishes
\* later, and that entry stays until an entry of a later attempt of the
\* same task takes its place.
C9_TimedOutResultNeverUsed ==
  /\ \A i \in DOMAIN results :
       results[i].fut \in timed_out =>
         ~results[i].ok /\ results[i].error = "timeout"
  /\ \A f \in timed_out :
       \E i \in DOMAIN results :
         \/ results[i].fut = f
         \/ /\ futures[results[i].fut].task = futures[f].task
            /\ futures[results[i].fut].attempt > futures[f].attempt

\* the driver has returned, and the computation of an attempt it had marked
\* timed out has finished with a row, which is not in results
C9_Witness ==
  /\ Returned
  /\ \E f \in timed_out :
       /\ futures[f].status = "finished"
       /\ futures[f].res.ok
       /\ \A i \in DOMAIN results : results[i].ok => results[i].fut # f

\* what the driver returns when the futures complete in the order in which
\* they were submitted, with the same futures given up
ResultsInSubmissionOrder ==
  Flatten([f \in DOMAIN futures |->
             IF f \in timed_out
             THEN << Failure(TaskPath(futures[f]), "", "timeout", f) >>
             ELSE EpwEntries(f)])

\* C10: the comparison tables and the summary run_material_comparison
\* writes are tables it can write when the futures complete in submission
\* order, in whatever order they did complete: the tables depend on the
\* outcomes of the tasks only, not on the order of completion.
C10_TablesIndependentOfOrder ==
  dpc = "reported" =>
    \E r \in ReportsOf(ResultsInSubmissionOrder, dcfg.scenarios) :
      report.tables = r.tables /\ report.summary = r.summary


\* the position in epw_files of the weather file a table row was computed
\* for: the file of that base name whose run reports the row's energy
RowFile(r) ==
  CHOOSE e \in DOMAIN dcfg.epw_files :
    /\ epw_name(dcfg.epw_files[e]) = r.EPW
    /\ total_hvac_energy(dcfg.epw_files[e],
                         OrderOf(dcfg.scenarios, r.Scenario))
         = r.Total_HVAC_Energy_kWh

\* the run of the first declared scenario under weather file e has a row
HasBaseline(e) ==
  \E i \in DOMAIN results :
    /\ results[i].ok
    /\ results[i].row = ResultRow(dcfg.epw_files[e], dcfg.scenarios, 1)

\* C11: every delta of a per-weather table and every saving of the summary
\* table is taken against the row of the first declared scenario of the
\* row's own weather file, and a weather file without that row gets no
\* delta and no saving in either table.
C11_SavingsAgainstOwnBaseline ==
  dpc = "reported" =>
    /\ \A g \in DOMAIN report.tables :
         \A i \in DOMAIN report.tables[g].rows :
           LET r == report.tables[g].rows[i]
           IN /\ r.has_delta = HasBaseline(RowFile(r))
              /\ r.has_delta =>
                   r.Delta_Energy_kWh =
                     r.Total_HVAC_Energy_kWh
                     - total_hvac_energy(dcfg.epw_files[RowFile(r)], 1)
    /\ \A i \in DOMAIN report.summary :
         LET r == report.summary[i]
         IN /\ HasBaseline(RowFile(r))
            /\ r.Saving =
                 total_hvac_energy(dcfg.epw_files[RowFile(r)], 1)
                 - r.Total_HVAC_Energy_kWh


\* ------------------------------------------------- hvac_system.py, calls made

\* the 'hvac' sections the systems are built from: that of
\* create_config_with_material, one without the two COP keys, and one with
\* other reference COPs
HvacConfigs ==
  {[cop_cooling |-> 3500, cop_heating |-> 3000],
   [cop_cooling |-> NoneVal, cop_heating |-> NoneVal],
   [cop_cooling |-> 5000, cop_heating |-> 2000]}

\* the outdoor temperatures passed, mK: None, below the 250 K clamp, -10 C,
\* the heating reference 7 C, 17 C, 32 C, the 330 K clamp and above it
OutdoorTemperatures ==
  {NoneVal, 240000, 263150, 280150, 290150, 305150, 330000, 340000}

\* the loads passed, W
Loads == {-100, 0, 1, 20000, 45000, 60000}

Modes == {"cooling", "heating"}

\* one instance of every class, all built from hvac_config
Systems == [c \in Classes |-> NewHVACSystem(c, hvac_config)]

HvacInit ==
  /\ hvac_config \in HvacConfigs
  /\ prev_call = NoAnswer
  /\ last_call = NoAnswer
  /\ SimIdle
  /\ DriverIdle
  /\ TaskIdle
  /\ ConfigIdle

\* calculate_energy(load, mode, 3600.0, T_outdoor) on every instance
CalculateEnergy ==
  \E load \in Loads, mode \in Modes, T_outdoor \in OutdoorTemperatures :
    /\ prev_call' = last_call
    /\ last_call' =
         [op |-> "calculate_energy", load |-> load, mode |-> mode,
          T_outdoor |-> T_outdoor,
          returns |-> [c \in Classes |->
                         HVACSystem_calculate_energy(Systems[c], load, mode,
                                                     T_outdoor)]]
    /\ UNCHANGED << hvac_config, simvars, drivervars, taskvars, configvars >>

\* get_cop_cooling(T_outdoor) on every instance
GetCopCooling ==
  \E T_outdoor \in OutdoorTemperatures :
    /\ prev_call' = last_call
    /\ last_call' =
         [op |-> "get_cop_cooling", T_outdoor |-> T_outdoor,
          returns |-> [c \in Classes |-> CopCooling(Systems[c], T_outdoor)]]
    /\ UNCHANGED << hvac_config, simvars, drivervars, taskvars, configvars >>

\* get_cop_heating(T_outdoor) on every instance
GetCopHeating ==
  \E T_outdoor \in OutdoorTemperatures :
    /\ prev_call' = last_call
    /\ last_call' =
         [op |-> "get_cop_heating", T_outdoor |-> T_outdoor,
          returns |-> [c \in Classes |-> CopHeating(Systems[c], T_outdoor)]]
    /\ UNCHANGED << hvac_config, simvars, drivervars, taskvars, configvars >>

HvacNext ==
  \/ CalculateEnergy
  \/ GetCopCooling
  \/ GetCopHeating

SpecHvac == HvacInit /\ [][HvacNext]_vars

\* the capacity calculate_energy divides the load by
CapacityOf(self, mode) ==
  IF mode = "cooling" THEN self.max_cooling_capacity
  ELSE self.max_heating_capacity

\* C13: HVACSystem.calculate_energy returns 0 for every load <= 0; for a
\* load > 0 it returns load * dt / max(cop(T_outdoor) * f(plr), 0.1) with
\* plr = min(load / rated capacity, 1) and f(plr) = a + b * plr held in
\* [0.1, 1], which is positive; so the energy is never negative and is
\* positive exactly when the load is.  The value the engine records, in kJ,
\* is the whole-kJ part of the same quotient.
C13_EnergyZeroOrPositive ==
  last_call.op = "calculate_energy" =>
    LET self == Systems["HVACSystem"]
        load == last_call.load
        capacity == CapacityOf(self, last_call.mode)
        energy == last_call.returns["HVACSystem"]
        cop == IF last_call.mode = "cooling"
               THEN HVACSystem_get_cop_cooling(self, last_call.T_outdoor)
               ELSE HVACSystem_get_cop_heating(self, last_call.T_outdoor)
        f == Clip(self.plr_coeff_a
                  + (self.plr_coeff_b * Min(load, capacity)) \div capacity,
                  100, 1000)
    IN /\ energy >= 0
       /\ load <= 0 => energy = 0
       /\ load > 0 =>
            /\ energy > 0
            /\ energy = EnergyOver(load, Max((cop * f) \div 1000, 100))
       /\ (hvac_config.cop_cooling = 3500 /\ hvac_config.cop_heating = 3000
           /\ last_call.T_outdoor # NoneVal) =>
            calculate_energy(load, last_call.mode, last_call.T_outdoor)
              = energy \div 1000

\* a call with a load that is not positive, then one with a positive load
\* below the rated capacity
C13_Witness ==
  /\ prev_call.op = "calculate_energy"
  /\ prev_call.load <= 0
  /\ prev_call.returns["HVACSystem"] = 0
  /\ last_call.op = "calculate_energy"
  /\ last_call.load = 1
  /\ last_call.returns["HVACSystem"] > 0

\* C14: get_cop_cooling of every class returns a value in [1.0, 6.0] and
\* get_cop_heating a value in [1.0, 5.0], for every configured reference COP
\* and every outdoor temperature, None and values outside [250, 330] K
\* included.
C14_CopWithinRange ==
  /\ last_call.op = "get_cop_cooling" =>
       \A c \in Classes : last_call.returns[c] \in 1000..6000
  /\ last_call.op = "get_cop_heating" =>
       \A c \in Classes : last_call.returns[c] \in 1000..5000

\* C15: HVACSystem.get_cop_heating does not decrease between two outdoor
\* temperatures from the heating reference 280.15 K up to the 330 K clamp.
C15_HeatingCopMonotone ==
  (/\ prev_call.op = "get_cop_heating"
   /\ last_call.op = "get_cop_heating"
   /\ prev_call.T_outdoor # NoneVal
   /\ last_call.T_outdoor # NoneVal
   /\ 280150 <= prev_call.T_outdoor
   /\ prev_call.T_outdoor <= last_call.T_outdoor
   /\ last_call.T_outdoor <= 330000)
  => prev_call.returns["HVACSystem"] <= last_call.returns["HVACSystem"]

\* C16: for every load with part-load ratio 0 < plr < 1 and every outdoor
\* temperature, the VRF system's part-load factor is at least the baseline
\* system's, and its calculate_energy result is no greater.
C16_VrfBetterAtPartLoad ==
  (/\ last_call.op = "calculate_energy"
   /\ last_call.load > 0
   /\ last_call.load
        < CapacityOf(Systems["HVACSystem"], last_call.mode))
  => LET capacity == CapacityOf(Systems["HVACSystem"], last_call.mode)
     IN /\ PartLoadFactor(Systems["VariableRefrigerantFlowSystem"],
                          last_call.load, capacity)
             >= PartLoadFactor(Systems["HVACSystem"], last_call.load,
                               capacity)
        /\ last_call.returns["VariableRefrigerantFlowSystem"]
             <= last_call.returns["HVACSystem"]


\* ------------------------------------ weather_data.py, as the workers use it

\* a data row of an EPW file: the hour stamp its Year, Month, Day and Hour
\* give, the year, the month, DBT in mC and RH in percent
EpwRow(t, y, dbt, rh) ==
  [DateTime |-> t, Year |-> y, Month |-> 1, DBT |-> dbt, RH |-> rh]

\* what a path can hold: a well-formed file; a file whose rows are not in
\* time order and whose RH runs above 100 and below 0; a file whose RH is
\* below 0 and never above 100; no file; a file pandas cannot parse
EpwContents ==
  {[kind |-> "epw",
    rows |-> << EpwRow(0, 2001, 30000, 50), EpwRow(1, 2001, 10000, 60) >>],
   [kind |-> "epw",
    rows |-> << EpwRow(1, 2002, -5000, 110), EpwRow(0, 2002, 5000, -5) >>],
   [kind |-> "epw", rows |-> << EpwRow(0, 2001, 20000, -5) >>],
   [kind |-> "missing", rows |-> << >>],
   [kind |-> "unreadable", rows |-> << >>]}

\* weather_data.py:186-193: RH is clipped to [0, 100] when some row's RH is
\* above 100
CleanRH(rows) ==
  IF \E i \in DOMAIN rows : rows[i].RH > 100
  THEN [i \in DOMAIN rows |-> [rows[i] EXCEPT !.RH = Clip(@, 0, 100)]]
  ELSE rows

\* sort_values('DateTime') of rows with distinct stamps
SortByDateTime(rows) ==
  SortSeq(rows, LAMBDA a, b : a.DateTime < b.DateTime)

RECURSIVE SortedList(_)
\* sorted(...unique().tolist())
SortedList(S) ==
  IF S = {} THEN << >>
  ELSE LET least == CHOOSE x \in S : \A y \in S : x <= y
       IN << least >> \o SortedList(S \ {least})

\* float(pd.to_numeric(self.data['DBT']).mean())
MeanDBT(rows) == SumTo([i \in DOMAIN rows |-> rows[i].DBT], Len(rows))
                 \div Len(rows)

\* the attributes _read_epw has set when it has parsed a file with rows
ParsedWeather(rows) ==
  [columns |-> {"DateTime", "Year", "Month", "DBT", "RH"},
   data |-> rows,
   start_datetime |-> rows[1].DateTime,
   end_datetime |-> rows[Len(rows)].DateTime,
   years |-> SortedList({rows[i].Year : i \in DOMAIN rows}),
   annual_mean_dbt |-> MeanDBT(rows)]

\* weather_data.py:64-209
parse_epw(content) == ParsedWeather(SortByDateTime(CleanRH(content.rows)))

\* _create_dummy_weather: hourly rows from 2023-01-01 00:00, of which the
\* model keeps the first two; the frame has no Month and no Year column, and
\* start_datetime, end_datetime, years and annual_mean_dbt are never set
create_dummy_weather ==
  [columns |-> {"DateTime", "DBT", "RH"},
   data |-> << [DateTime |-> 0, DBT |-> 5218, RH |-> 50],
               [DateTime |-> 1, DBT |-> 6512, RH |-> 50] >>,
   start_datetime |-> NoneVal, end_datetime |-> NoneVal, years |-> << >>,
   annual_mean_dbt |-> NoneVal]

\* the entry _read_epw stores in _EPW_CACHE: the frame itself, the two
\* stamps, a copy of years, the mean
CacheEntry(wd) ==
  [data |-> wd.data, columns |-> wd.columns,
   start_datetime |-> wd.start_datetime, end_datetime |-> wd.end_datetime,
   years |-> wd.years, annual_mean_dbt |-> wd.annual_mean_dbt]

\* weather_data.py:53-62: the attributes set from a cache entry
FromCache(cached) ==
  [columns |-> cached.columns, data |-> cached.data,
   start_datetime |-> cached.start_datetime,
   end_datetime |-> cached.end_datetime, years |-> cached.years,
   annual_mean_dbt |-> cached.annual_mean_dbt]

\* a cache keyed by the file's base name
BaseNameKey(path) == epw_name(path)

\* the key of _EPW_CACHE: self.epw_file
CacheKey(path) == path

\* (self.data['DateTime'] - datetime_obj).abs().argmin(): the first row at
\* the least distance
NearestRow(rows, t) ==
  CHOOSE i \in DOMAIN rows :
    /\ \A j \in DOMAIN rows :
         Abs(rows[i].DateTime - t) <= Abs(rows[j].DateTime - t)
    /\ \A j \in 1..(i - 1) :
         Abs(rows[j].DateTime - t) > Abs(rows[i].DateTime - t)

\* WeatherData.get_hourly_data(datetime_obj) on the attributes wd: row['Month']
\* raises KeyError when the frame has no such column; humidity is RH / 100,
\* in hundredths
WeatherData_get_hourly_data(wd, t) ==
  LET row == wd.data[NearestRow(wd.data, t)]
  IN IF "Month" \notin wd.columns THEN [raised |-> "KeyError"]
     ELSE [raised |-> "", temperature |-> row.DBT, humidity |-> row.RH,
           month |-> row.Month, datetime |-> row.DateTime,
           annual_mean_temperature |-> wd.annual_mean_dbt]

\* ------------------------------------- compare_materials.py, worker threads

\* the threads of the ThreadPoolExecutor of _run_all_tasks_parallel
Threads == 1..2

\* the scenarios the tasks are given: those of _build_scenarios and one that
\* sets the wall's conductivity (0.3 W/mK) and the roof's absorptance (0.4)
\* and conductivity (0.1 W/mK)
TaskScenarios ==
  build_scenarios \o
  << [name |-> "render", wall |-> Params(NoneVal, NoneVal, 300),
      roof |-> Params(40, NoneVal, 100)] >>

\* the two paths the tasks read
TaskPaths == {EpwPaths[1], EpwPaths[2]}

\* the (epw_path, scenario) pairs the two threads are started with
TaskPairs ==
  {<< [epw_path |-> EpwPaths[1], scenario |-> sc[1]],
      [epw_path |-> p, scenario |-> sc[2]] >> :
     p \in TaskPaths, sc \in {<<1, 2>>, <<2, 4>>, <<4, 3>>}}

NoObject == [columns |-> {}]

NoResult == [ok |-> FALSE, error |-> "not run"]

TaskInit ==
  /\ disk \in [TaskPaths -> EpwContents]
  /\ epw_cache = << >>
  /\ heap = << >>
  /\ \E pair \in TaskPairs :
       thread = [t \in Threads |->
                   [epw_path |-> pair[t].epw_path,
                    scenario |-> pair[t].scenario, pc |-> "start",
                    weather_data |-> NoObject, loaded_by |-> "",
                    building_model |-> 0, result |-> NoResult]]
  /\ SimIdle
  /\ DriverIdle
  /\ HvacIdle
  /\ ConfigIdle

\* weather_data.py:53-62: WeatherData(epw_file) finds the file in the cache
CacheHit(t) ==
  /\ thread[t].pc = "start"
  /\ CacheKey(thread[t].epw_path) \in DOMAIN epw_cache
  /\ thread' = [thread EXCEPT
       ![t].weather_data = FromCache(epw_cache[CacheKey(thread[t].epw_path)]),
       ![t].loaded_by = "cache",
       ![t].pc = "loaded"]
  /\ UNCHANGED << disk, epw_cache, heap, simvars, drivervars, hvacvars,
                  configvars >>

\* weather_data.py:53: the file is not in the cache
CacheMiss(t) ==
  /\ thread[t].pc = "start"
  /\ CacheKey(thread[t].epw_path) \notin DOMAIN epw_cache
  /\ thread' = [thread EXCEPT ![t].pc = "parse"]
  /\ UNCHANGED << disk, epw_cache, heap, simvars, drivervars, hvacvars,
                  configvars >>

\* weather_data.py:64-209: the file is read and cleaned
ParseEpw(t) ==
  /\ thread[t].pc = "parse"
  /\ disk[thread[t].epw_path].kind = "epw"
  /\ thread' = [thread EXCEPT
       ![t].weather_data = parse_epw(disk[thread[t].epw_path]),
       ![t].loaded_by = "parse",
       ![t].pc = "parsed"]
  /\ UNCHANGED << disk, epw_cache, heap, simvars, drivervars, hvacvars,
                  configvars >>

\* weather_data.py:223-229: FileNotFoundError or any other exception
DummyWeather(t) ==
  /\ thread[t].pc = "parse"
  /\ disk[thread[t].epw_path].kind # "epw"
  /\ thread' = [thread EXCEPT
       ![t].weather_data = create_dummy_weather,
       ![t].loaded_by = "dummy",
       ![t].pc = "loaded"]
  /\ UNCHANGED << disk, epw_cache, heap, simvars, drivervars, hvacvars,
                  configvars >>

\* weather_data.py:211-221: _EPW_CACHE[self.epw_file] = {...}
WriteCache(t) ==
  /\ thread[t].pc = "parsed"
  /\ epw_cache' =
       [k \in DOMAIN epw_cache \cup {CacheKey(thread[t].epw_path)} |->
          IF k = CacheKey(thread[t].epw_path)
          THEN CacheEntry(thread[t].weather_data) ELSE epw_cache[k]]
  /\ thread' = [thread EXCEPT ![t].pc = "loaded"]
  /\ UNCHANGED << disk, heap, simvars, drivervars, hvacvars,
                  configvars >>

\* the object BuildingModel(...) creates: a new one
NewObject(h) == Len(h) + 1

\* simulation_engine.py:46: BuildingModel(self.config['building'])
NewBuildingModel(t) ==
  /\ thread[t].pc = "loaded"
  /\ heap' = [a \in 1..Max(Len(heap), NewObject(heap)) |->
                IF a = NewObject(heap) THEN BuildingModel("envelope")
                ELSE heap[a]]
  /\ thread' = [thread EXCEPT ![t].building_model = NewObject(heap),
                              ![t].pc = "built"]
  /\ UNCHANGED << disk, epw_cache, simvars, drivervars, hvacvars,
                  configvars >>

\* compare_materials.py:315: _apply_material_scenario(engine, wall, roof)
ApplyMaterialScenario(t) ==
  /\ thread[t].pc = "built"
  /\ heap' = [heap EXCEPT ![thread[t].building_model] =
                apply_material_scenario(
                  @, TaskScenarios[thread[t].scenario].wall,
                  TaskScenarios[thread[t].scenario].roof)]
  /\ thread' = [thread EXCEPT ![t].pc = "applied"]
  /\ UNCHANGED << disk, epw_cache, simvars, drivervars, hvacvars,
                  configvars >>

\* simulation_engine.py:59-72: the weather file's first and last stamp, or
\* the configured dates (1 January to 31 December) when it sets none; the
\* model keeps the first two hours of the configured dates
EngineDates(wd) ==
  IF wd.start_datetime # NoneVal
  THEN [start_date |-> wd.start_datetime, end_date |-> wd.end_datetime]
  ELSE [start_date |-> 0, end_date |-> 1]

\* _worker_one from run_simulation on: what the run read, hour by hour, and
\* the building model it worked on; a KeyError of get_hourly_data leaves
\* run_simulation and _worker_one returns {'ok': False, ...}
worker_result(wd, bm) ==
  LET dates == EngineDates(wd)
      hourly == [h \in dates.start_date..dates.end_date |->
                   WeatherData_get_hourly_data(wd, h)]
  IN IF \E h \in DOMAIN hourly : hourly[h].raised # ""
     THEN [ok |-> FALSE, error |-> "KeyError"]
     ELSE [ok |-> TRUE, hourly |-> hourly, building_model |-> bm]

\* compare_materials.py:316-342: engine.run_simulation() and the row
RunSimulation(t) ==
  /\ thread[t].pc = "applied"
  /\ thread' = [thread EXCEPT
       ![t].result = worker_result(thread[t].weather_data,
                                   heap[thread[t].building_model]),
       ![t].pc = "done"]
  /\ UNCHANGED << disk, epw_cache, heap, simvars, drivervars, hvacvars,
                  configvars >>

TaskNext ==
  \E t \in Threads :
    \/ CacheHit(t)
    \/ CacheMiss(t)
    \/ ParseEpw(t)
    \/ DummyWeather(t)
    \/ WriteCache(t)
    \/ NewBuildingModel(t)
    \/ ApplyMaterialScenario(t)
    \/ RunSimulation(t)

SpecTasks == TaskInit /\ [][TaskNext]_vars


\* what WeatherData(path) sets when no other thread runs: the cache is empty
LoadAlone(path) ==
  IF disk[path].kind = "epw" THEN parse_epw(disk[path])
  ELSE create_dummy_weather

\* the building model of thread t's task when no other thread runs
BuildingAlone(t) ==
  apply_material_scenario(BuildingModel("envelope"),
                          TaskScenarios[thread[t].scenario].wall,
                          TaskScenarios[thread[t].scenario].roof)

HasWeather(t) == thread[t].pc \in {"parsed", "loaded", "built", "applied", "done"}

HasBuilding(t) == thread[t].pc \in {"built", "applied", "done"}

\* C12: under every interleaving of the worker threads a task's result is the
\* one it produces alone: its building model carries its own scenario and
\* nothing of another task's, and a WeatherData loaded from the cache exposes
\* the data, start and end stamps, years and annual mean that parsing the file
\* gives, also when both threads parse the same file and both write the cache
\* entry.
C12_TasksIsolated ==
  \A t \in Threads :
    /\ HasWeather(t) =>
         LET wd == thread[t].weather_data
             alone == LoadAlone(thread[t].epw_path)
         IN /\ wd.data = alone.data
            /\ wd.start_datetime = alone.start_datetime
            /\ wd.end_datetime = alone.end_datetime
            /\ wd.years = alone.years
            /\ wd.annual_mean_dbt = alone.annual_mean_dbt
    /\ thread[t].pc = "built" =>
         heap[thread[t].building_model] = BuildingModel("envelope")
    /\ thread[t].pc \in {"applied", "done"} =>
         heap[thread[t].building_model] = BuildingAlone(t)
    /\ thread[t].pc = "done" =>
         thread[t].result
           = worker_result(LoadAlone(thread[t].epw_path), BuildingAlone(t))

\* both tasks read the same file under different scenarios, the first parsed
\* it, the second was served from the cache, and both have returned a row
C12_Witness ==
  /\ thread[1].epw_path = thread[2].epw_path
  /\ thread[1].scenario # thread[2].scenario
  /\ thread[1].loaded_by = "parse"
  /\ thread[2].loaded_by = "cache"
  /\ \A t \in Threads : thread[t].pc = "done" /\ thread[t].result.ok

\* C17: a surface whose configuration gives no solar_absorptance and no
\* emissivity (every surface of create_config_with_material) enters the
\* exterior heat balance with the solar absorptance and the emissivity of
\* its construction's outer material.
C17_SurfaceInheritsOuterMaterial ==
  \A t \in Threads :
    thread[t].pc = "built" =>
      LET bm == heap[thread[t].building_model]
      IN \A z \in DOMAIN bm.zones :
           \A i \in DOMAIN bm.zones[z].surfaces :
             LET sf == bm.zones[z].surfaces[i]
                 construction == bm.constructions[sf.construction]
                 c == SurfaceContext(construction, sf, RecordAt("summer", 12),
                                     303150, 293150)
             IN /\ c.alpha = construction.layers[1].solar_absorptance
                /\ c.emiss = construction.layers[1].emissivity

\* the value at key of an outer layer or of a surface after the scenario:
\* the parameter when it is not None, the value before otherwise
AfterParam(before, param) == IF param # NoneVal THEN param ELSE before

\* C18: _apply_material_scenario changes only the solar absorptance, the
\* emissivity and the conductivity of the outer layer of Wall_Standard and of
\* Roof_Standard and the two overrides of the wall and roof surfaces: every
\* other layer, the outer layers' name, thickness, density and specific heat,
\* every other construction, the Floor surface and everything else of the
\* zones are as BuildingModel created them, and a parameter that is None
\* leaves its value as it was.
C18_ScenarioFrame ==
  \A t \in Threads :
    thread[t].pc \in {"applied", "done"} =>
      LET bm == heap[thread[t].building_model]
          fresh == BuildingModel("envelope")
          sc == TaskScenarios[thread[t].scenario]
          ParamsFor(cn) == IF cn = "Wall_Standard" THEN sc.wall ELSE sc.roof
      IN /\ DOMAIN bm.constructions = DOMAIN fresh.constructions
         /\ \A cn \in DOMAIN fresh.constructions :
              LET now == bm.constructions[cn]
                  was == fresh.constructions[cn]
              IN /\ now.name = was.name
                 /\ Len(now.layers) = Len(was.layers)
                 /\ \A k \in DOMAIN was.layers :
                      IF k = 1 /\ cn \in {"Wall_Standard", "Roof_Standard"}
                      THEN now.layers[k] =
                             [was.layers[k] EXCEPT
                                !.solar_absorptance =
                                   AfterParam(@, ParamsFor(cn).alpha),
                                !.emissivity =
                                   AfterParam(@, ParamsFor(cn).emissivity),
                                !.conductivity =
                                   AfterParam(@, ParamsFor(cn).conductivity)]
                      ELSE now.layers[k] = was.layers[k]
         /\ Len(bm.zones) = Len(fresh.zones)
         /\ \A z \in DOMAIN fresh.zones :
              /\ [bm.zones[z] EXCEPT !.surfaces = << >>]
                   = [fresh.zones[z] EXCEPT !.surfaces = << >>]
              /\ Len(bm.zones[z].surfaces) = Len(fresh.zones[z].surfaces)
              /\ \A i \in DOMAIN fresh.zones[z].surfaces :
                   LET now == bm.zones[z].surfaces[i]
                       was == fresh.zones[z].surfaces[i]
                   IN IF was.orientation = "Floor" THEN now = was
                      ELSE LET ps == IF was.orientation = "Roof" THEN sc.roof
                                     ELSE sc.wall
                           IN now = [was EXCEPT
                                       !.solar_absorptance =
                                          AfterParam(@, ps.alpha),
                                       !.emissivity =
                                          AfterParam(@, ps.emissivity)]

\* a task whose scenario sets the wall's conductivity only and the roof's
\* absorptance and conductivity has applied it: the wall's outer layer has
\* the new conductivity and its old absorptance
C18_Witness ==
  \E t \in Threads :
    /\ thread[t].pc = "applied"
    /\ TaskScenarios[thread[t].scenario].wall = Params(NoneVal, NoneVal, 300)
    /\ LET bm == heap[thread[t].building_model]
       IN /\ bm.constructions.Wall_Standard.layers[1].conductivity = 300
          /\ bm.constructions.Wall_Standard.layers[1].solar_absorptance = 60
          /\ bm.constructions.Roof_Standard.layers[1].solar_absorptance = 40

\* C19: when the weather file is missing or unreadable, WeatherData is
\* constructed on synthetic weather, get_hourly_data returns a complete
\* record for every requested stamp, and the run on it completes.
C19_DummyWeatherRuns ==
  \A t \in Threads :
    disk[thread[t].epw_path].kind # "epw" =>
      /\ HasWeather(t) =>
           /\ thread[t].weather_data.data # << >>
           /\ \A h \in 0..1 :
                WeatherData_get_hourly_data(thread[t].weather_data, h).raised
                  = ""
      /\ thread[t].pc = "done" => thread[t].result.ok

\* C20: after any weather source is loaded every row's RH lies in [0, 100],
\* and the humidity get_hourly_data returns lies in [0, 1].
C20_HumidityInRange ==
  \A t \in Threads :
    HasWeather(t) =>
      LET wd == thread[t].weather_data
      IN /\ \A i \in DOMAIN wd.data : wd.data[i].RH \in 0..100
         /\ "Month" \in wd.columns =>
              \A h \in 0..1 :
                WeatherData_get_hourly_data(wd, h).humidity \in 0..100


\* ---------------------------------- SimulationEngine.__init__, configurations

\* the configurations an engine is constructed from: one zone with one
\* surface.  A section is "absent" or "given" (weather can also be given
\* without its epw_file key); a zone or surface key is NoneVal or "" when the
\* dictionary does not hold it; the construction name may be one that
\* _create_constructions does not define
EngineConfigs ==
  [weather : {"absent", "no epw_file", "given"},
   building : {"absent", "given"},
   hvac : {"absent", "given"},
   simulation : {"absent", "given"},
   volume : {NoneVal, 300}, area : {NoneVal, 80},
   surface_area : {NoneVal, 50}, orientation : {"", "Roof"},
   construction : {"", "Roof_Standard", "Roof_Green"}]

\* dict.get(key, default)
GetOr(value, absent, default) == IF value = absent THEN default ELSE value

\* BuildingModel._create_zone_from_config and _create_surface_from_config on
\* the zone of c: every key is read with a default, and the construction is
\* self.constructions.get(name), None for a name that is not defined
ZonesFromConfig(c) ==
  LET name == GetOr(c.construction, "", "Wall_Standard")
  IN << Zone("Zone1", GetOr(c.volume, NoneVal, 500),
             GetOr(c.area, NoneVal, 100), 5, 10, 5,
             << Surface("Surface", GetOr(c.orientation, "", "South"),
                        GetOr(c.surface_area, NoneVal, 100),
                        IF name \in DOMAIN create_constructions THEN name
                        ELSE "None",
                        60, 90) >>) >>

\* simulation_engine.py:42-55: the subscripts that raise KeyError, in the
\* order in which __init__ evaluates them; "" when none does
FirstKeyError(c) ==
  IF c.weather = "absent" THEN "weather"
  ELSE IF c.weather = "no epw_file" THEN "epw_file"
  ELSE IF c.building = "absent" THEN "building"
  ELSE IF c.hvac = "absent" THEN "hvac"
  ELSE IF c.simulation = "absent" THEN "simulation"
  ELSE ""

ConfigInit ==
  /\ ecfg \in EngineConfigs
  /\ built = [pc |-> "start"]
  /\ SimIdle
  /\ DriverIdle
  /\ HvacIdle
  /\ TaskIdle

\* SimulationEngine(config_file)
Construct ==
  /\ built.pc = "start"
  /\ built' = IF FirstKeyError(ecfg) # ""
              THEN [pc |-> "raised", error |-> FirstKeyError(ecfg)]
              ELSE [pc |-> "constructed", zones |-> ZonesFromConfig(ecfg)]
  /\ UNCHANGED << ecfg, simvars, drivervars, hvacvars, taskvars >>

\* run_simulation on the engine constructed: its first timestep begins
FirstTimestep ==
  /\ built.pc = "constructed"
  /\ built' = [built EXCEPT !.pc = "running"]
  /\ UNCHANGED << ecfg, simvars, drivervars, hvacvars, taskvars >>

ConfigNext ==
  \/ Construct
  \/ FirstTimestep

SpecConfig == ConfigInit /\ [][ConfigNext]_vars

\* the configuration lacks a section or key the claim calls required
LacksRequired(c) ==
  \/ c.weather # "given"
  \/ c.hvac = "absent"
  \/ c.simulation = "absent"
  \/ c.building = "absent"
  \/ c.volume = NoneVal
  \/ c.area = NoneVal
  \/ c.surface_area = NoneVal
  \/ c.orientation = ""
  \/ c.construction \notin DOMAIN create_constructions

\* C21: constructing a SimulationEngine raises, before any timestep is
\* simulated, for every configuration that lacks the weather file reference,
\* the HVAC section, the simulation section, or a building geometry field
\* (zone volume, zone floor area, surface area, surface orientation, a
\* construction name that exists).
C21_RejectsIncompleteConfig ==
  (LacksRequired(ecfg) /\ built.pc # "start") => built.pc = "raised"


\* ------------------------------------------- SimulationEngine, more claims

\* the flux compute_sensible_balance gives every surface of the zone under
\* the record w (heat_balance.py:380-389)
FluxFor(zone, w) ==
  distribute_internal_radiation(
    zone, split_internal_loads(zone).rad,
    calculate_solar_gain(zone, w) - calculate_solar_gain(zone, w) \div 5)

\* C22: in every timestep each surface's internal_radiative_flux is reset
\* and recomputed from that timestep's weather and internal loads before the
\* first calculate_surface_temperature call of the timestep: when the heat
\* balance of a timestep is about to be calculated, every surface carries
\* the flux of this timestep.
C22_FluxRecomputedBeforeSolve ==
  pc = "balance" =>
    \A r \in Runs :
      \A z \in DOMAIN engine[r].building_model.zones :
        LET zone == engine[r].building_model.zones[z]
        IN \A i \in DOMAIN zone.surfaces :
             zone.surfaces[i].internal_radiative_flux = FluxFor(zone, weather)

\* C23: the surface temperatures written to the SurfaceTemperatures output
\* of a timestep are those compute_sensible_balance wrote while evaluating
\* the zone at a setpoint (the cooling or the heating one): when the
\* timestep is stored, the snapshot taken by _calculate_zone_heat_balance
\* holds the temperatures one of the two balances left in the surfaces.
C23_RecordedSurfacesAreFinal ==
  pc = "store" =>
    \A r \in Runs :
      \A z \in DOMAIN engine[r].building_model.zones :
        LET zone == engine[r].building_model.zones[z]
        IN \/ zone.surface_temperatures
                = [i \in DOMAIN zone.surfaces |-> zone.surfaces[i].temperature]
           \/ zone.surface_temperatures
                = [i \in DOMAIN zone.surfaces |->
                     compute_sensible_balance(
                       engine[r].building_model.constructions, zone, weather,
                       hvac_system.cooling_setpoint).zone.surfaces[i]
                       .temperature]

\* C24: over one timestep zone.temperature changes by at most 5 K and stays
\* within [250, 330] K: the step that calculates the zone heat balance, the
\* only one of a timestep that moves the air node, moves it by no more than
\* 5 K.
C24_ZoneStepWithinFiveKelvin ==
  [][pc = "balance" =>
       \A r \in Runs :
         \A z \in DOMAIN engine[r].building_model.zones :
           /\ Abs(engine'[r].building_model.zones[z].temperature
                  - engine[r].building_model.zones[z].temperature) <= 5000
           /\ engine'[r].building_model.zones[z].temperature
                \in 250000..330000]_vars

\* the loads and energies _calculate_hvac_load leaves in a zone
LoadsIn(zone) ==
  [cooling_load |-> zone.cooling_load, heating_load |-> zone.heating_load,
   cooling_energy |-> zone.cooling_energy,
   heating_energy |-> zone.heating_energy]

\* C25: the cooling load, heating load and HVAC energies of a timestep are a
\* function of the timestep's weather record and of the static building and
\* HVAC configuration only: they are what _calculate_hvac_load gives on the
\* building as it was constructed, whatever free-float temperature and
\* surface state the earlier timesteps (the warm-up included) have left.
C25_LoadsDependOnWeatherOnly ==
  pc = "store" =>
    \A r \in Runs :
      \A z \in DOMAIN engine[r].building_model.zones :
        LoadsIn(engine[r].building_model.zones[z])
          = LoadsIn(calculate_hvac_load(
                      engine[r].building_model.constructions,
                      NewEngine(cfg, r).building_model.zones[z],
                      weather).zone)

\* a timestep after the first is about to be stored, the air node and a
\* surface are no longer as constructed, and a load is positive
C25_Witness ==
  /\ pc = "store"
  /\ Len(handled) > 1
  /\ \E r \in Runs :
       \E z \in DOMAIN engine[r].building_model.zones :
         LET zone == engine[r].building_model.zones[z]
         IN /\ zone.temperature # 293150
            /\ zone.surfaces[1].temperature # 293150
            /\ zone.surfaces[1].internal_radiative_flux # 0
            /\ zone.cooling_load + zone.heating_load > 0

\* C26: with a configured timestep of k hours the energy recorded for a
\* timestep is load * (k * 3600 s) / effective COP: k times the energy of
\* one hour at that load, up to the rounding to whole kJ.
C26_EnergyCoversTimestep ==
  pc = "store" =>
    \A r \in Runs :
      \A z \in DOMAIN engine[r].building_model.zones :
        LET zone == engine[r].building_model.zones[z]
            k == cfg.timestep
            hour_cool == calculate_energy(zone.cooling_load, "cooling",
                                          weather.temperature + 273150)
            hour_heat == calculate_energy(zone.heating_load, "heating",
                                          weather.temperature + 273150)
        IN /\ zone.cooling_energy \in (k * hour_cool)..(k * hour_cool + k)
           /\ zone.heating_energy \in (k * hour_heat)..(k * hour_heat + k)


\* C29: for every outdoor air temperature of a weather record, clipped to
\* [200, 330] K, and no sky-cover input, the Swinbank candidate is below the
\* air temperature, and the weighted mean of the candidates lies at or below
\* the upper clamp TaK - 2 K, so the clamp is not what decides the result.
C29_SwinbankBelowAir ==
  pc \in {"balance", "hvac", "store"} =>
    LET TaK == Clip(weather.temperature + 273150, 200000, 330000)
    IN /\ SwinbankCandidate(TaK) < TaK
       /\ WeightedSky(TaK) <= TaK - 2000


\* ------------------------------------------- batch drivers, more claims

\* C27: a task is marked timed out only when its own execution has run for
\* longer than the timeout; the time it waits in the executor's queue does
\* not count, so a future the driver has marked timed out had been started
\* by a worker (it is neither still queued nor cancelled out of the queue).
C27_TimedOutHadStarted ==
  \A f \in timed_out : futures[f].status \notin {"queued", "cancelled"}

\* the steps of the driver's own thread that do not depend on the clock
DriverStep ==
  \/ SubmitAll
  \/ \E f \in DOMAIN futures : CollectDone(f)
  \/ RetrySubmit
  \/ \E f \in DOMAIN futures : CollectRetry(f)
  \/ PairsReturn
  \/ \E f \in DOMAIN futures : CollectEpw(f)
  \/ BatchReturn
  \/ RunMaterialComparison

\* a step of a worker on a future the driver has not given up
WorkerStep ==
  \E f \in DOMAIN futures :
    f \notin timed_out /\ (WorkerOne(f) \/ WorkerEpwBatch(f))

\* the driver's thread keeps going, the pool hands queued futures to free
\* workers, and every computation the driver has not given up goes on; a
\* computation the driver has marked timed out may run for ever, and no
\* clock forces a timeout
SpecDriverLive ==
  /\ DriverInit
  /\ [][DriverNext]_vars
  /\ WF_vars(DriverStep)
  /\ WF_vars(WorkerStart)
  /\ WF_vars(WorkerStep)

\* every submitted task has completed and been collected or has been marked
\* timed out, and the driver has nothing left to submit
AllSettled ==
  /\ dpc \in {"first", "retry"}
  /\ pending = {}
  /\ (dcfg.driver = "pairs" /\ dpc = "first") => failed_tasks = << >>

\* C28: once every submitted task has completed or has been marked timed
\* out, the driver call eventually returns its results, even when the
\* computation of a task marked timed out never finishes.
C28_ReturnsOnceSettled == AllSettled ~> (dpc \in {"returned", "reported"})

\* C30: weather files of the same base name in different directories are
\* distinct weather cases: every per-weather table of the report holds the
\* rows of one weather file only, and there are as many tables as weather
\* files with a row.
C30_OneTablePerWeatherFile ==
  dpc = "reported" =>
    /\ \A g \in DOMAIN report.tables :
         \A i, j \in DOMAIN report.tables[g].rows :
           RowFile(report.tables[g].rows[i])
             = RowFile(report.tables[g].rows[j])
    /\ Len(report.tables)
         = Cardinality({RowFile(report.summary[i]) :
                          i \in DOMAIN report.summary})

============================================================================
